---- MODULE Spec2Model ----
(***************************************************************************)
(* Model of the FIT decoder (parseFIT, src/js/fit-parser.js) and of the    *)
(* dive extraction (extractDiveFromBuffer, src/js/charts.js).              *)
(*                                                                         *)
(* The input buffer is a sequence of bytes chosen in Init; parseFIT is one *)
(* action for the header and one action per iteration of the record loop;  *)
(* extractDiveFromBuffer is one action that runs on the returned messages. *)
(* handleFile starts the next call on another buffer once a call is over;  *)
(* earlier holds the buffer and the definition table of each call before.  *)
(* store is the object store of the database, dives the list that          *)
(* getAllDives gives back.                                                 *)
(* The application's buttons (src/js/fit-parser.js, lines 278-415), the    *)
(* chart cursors (src/js/charts.js, lines 23-29 and 304-459) and the       *)
(* service worker (src/sw.js) have their own variables and their own       *)
(* specifications; each specification leaves the others' variables idle.   *)
(* JavaScript values are records of one shape, [k, n, d, s]:               *)
(*   k = "num"   the number n / d (d > 0, fraction in lowest terms)        *)
(*   k = "null", "undefined", "nan"                                        *)
(*   k = "str"   the string whose char codes are s                         *)
(*   k = "f32", "f64"  the float whose bytes, most significant first, are s *)
(*   k = "big"   the integer n * 65536 + d, for 32-bit values >= 2^31      *)
(***************************************************************************)
EXTENDS Integers, Sequences, FiniteSets, TLC

VARIABLES bytes, pc, err, offset, endOfData, definitions, messages, scanned, dive,
          earlier, store, dives,
          currentDive, view, pending,
          cursor1Idx, cursor2Idx, longPressActive, longPressTimer, touches,
          cacheStorage, swState, cacheKeys, response

\* the application's navigation state and the delete handlers in flight
appVars == <<currentDive, view, pending>>

\* the cursors of the charts and the long-press state
chartVars == <<cursor1Idx, cursor2Idx, longPressActive, longPressTimer, touches>>

\* the service worker: the cache storage, the worker's life cycle, the
\* cache names that activate still has to delete, the last answer to a fetch
workerVars == <<cacheStorage, swState, cacheKeys, response>>

vars == <<bytes, pc, err, offset, endOfData, definitions, messages, scanned, dive,
         earlier, store, dives, appVars, chartVars, workerVars>>

-----------------------------------------------------------------------------
(* JavaScript values *)

Num(n) == [k |-> "num", n |-> n, d |-> 1, s |-> <<>>]
Null == [k |-> "null", n |-> 0, d |-> 1, s |-> <<>>]
Undef == [k |-> "undefined", n |-> 0, d |-> 1, s |-> <<>>]
NaN == [k |-> "nan", n |-> 0, d |-> 1, s |-> <<>>]
Str(s) == [k |-> "str", n |-> 0, d |-> 1, s |-> s]
Float(kind, bits) == [k |-> kind, n |-> 0, d |-> 1, s |-> bits]

\* bytes[i] past the end of a Uint8Array is undefined; so is a cursor that
\* became NaN (start + undefined).
Undefined == 0 - 1
NaNOffset == 0 - 2

\* offset < endOfData, false when the cursor is NaN
Lt(a, b) == a # NaNOffset /\ a < b

\* a + b on cursors: NaN when either side is NaN or undefined
AddOffset(a, b) == IF a = NaNOffset \/ b = Undefined THEN NaNOffset ELSE a + b

\* x & mask for a byte x and a one-bit mask, x >> s & m for bit fields;
\* undefined converts to 0 under a bitwise operator
ToInt32(x) == IF x = Undefined THEN 0 ELSE x
Bit(x, mask) == (ToInt32(x) \div mask) % 2 = 1
Bits(x, shift, width) == (ToInt32(x) \div shift) % width

-----------------------------------------------------------------------------
(* Buffer access *)

\* bytes[i]: the byte at 0-based index i, undefined outside the buffer
ByteAt(i) == IF i # NaNOffset /\ i >= 0 /\ i < Len(bytes) THEN bytes[i + 1] ELSE Undefined

\* DataView index conversion: NaN converts to index 0
ToIndex(i) == IF i = NaNOffset THEN 0 ELSE i

\* DataView getters throw a RangeError when the read leaves the buffer
\* (width 0: the code reads through bytes[], which never throws)
InRange(i, width) == width = 0 \/ ToIndex(i) + width <= Len(bytes)

\* data.getUint16(i, le) / the two 16-bit halves of a 32-bit read
\* mutant of GetUint16: the byte order of the definition is not passed on
GetUint16AlwaysLittle(i, le) ==
  LET j == ToIndex(i)
  IN bytes[j + 1] + 256 * bytes[j + 2]

GetUint16(i, le) ==
  LET j == ToIndex(i)
  IN IF le THEN bytes[j + 1] + 256 * bytes[j + 2] ELSE 256 * bytes[j + 1] + bytes[j + 2]

High16(i, le) == IF le THEN GetUint16(ToIndex(i) + 2, le) ELSE GetUint16(ToIndex(i), le)
Low16(i, le) == IF le THEN GetUint16(ToIndex(i), le) ELSE GetUint16(ToIndex(i) + 2, le)

\* A 32-bit integer of 2^31 or more is kept as its two halves, n * 65536 + d
Big(hi, lo) == [k |-> "big", n |-> hi, d |-> lo, s |-> <<>>]

\* the bytes of a float in most-significant-first order (its bit pattern)
FloatBits(i, width, le) ==
  LET j == ToIndex(i)
  IN [x \in 1..width |-> IF le THEN bytes[j + width + 1 - x] ELSE bytes[j + x]]

-----------------------------------------------------------------------------
(* readFieldValue: the value of one field and the cursor after it.         *)
(* threw = TRUE when a DataView getter raised a RangeError.                *)

FieldResult(val, off, threw) == [val |-> val, offset |-> off, threw |-> threw]

RECURSIVE ReadString(_, _, _)
ReadString(off, i, size) ==
  IF size = Undefined \/ i >= size THEN <<>>
  ELSE LET c == ByteAt(AddOffset(off, i))
       IN IF c = 0 THEN <<>>
          ELSE <<ToInt32(c)>> \o ReadString(off, i + 1, size)

\* mutant of FieldValue: sint32 is compared with the uint32 sentinel
FieldValueOneSentinel(bt, off, size, le) ==
  CASE bt \in {0, 2, 10, 13} ->
         LET b == ByteAt(off)
         IN IF b = Undefined THEN Undef ELSE IF b = 255 THEN Null ELSE Num(b)
    [] bt = 1 ->
         LET b == bytes[ToIndex(off) + 1]
             v == IF b >= 128 THEN b - 256 ELSE b
         IN IF v = 127 THEN Null ELSE Num(v)
    [] bt = 3 ->
         LET u == GetUint16(off, le)
             v == IF u >= 32768 THEN u - 65536 ELSE u
         IN IF v = 32767 THEN Null ELSE Num(v)
    [] bt \in {4, 11} ->
         LET u == GetUint16(off, le)
         IN IF u = 65535 THEN Null ELSE Num(u)
    [] bt = 5 ->
         LET hi == High16(off, le)
             lo == Low16(off, le)
         IN IF hi = 65535 /\ lo = 65535 THEN Null
            ELSE IF hi >= 32768 THEN Num((hi - 65536) * 65536 + lo)
            ELSE Num(hi * 65536 + lo)
    [] bt \in {6, 12} ->
         LET hi == High16(off, le)
             lo == Low16(off, le)
         IN IF hi = 65535 /\ lo = 65535 THEN Null
            ELSE IF hi >= 32768 THEN Big(hi, lo)
            ELSE Num(hi * 65536 + lo)
    [] bt = 7 -> Str(ReadString(off, 0, size))
    [] bt = 8 -> Float("f32", FloatBits(off, 4, le))
    [] bt = 9 -> Float("f64", FloatBits(off, 8, le))
    [] OTHER -> Null

FieldValue(bt, off, size, le) ==
  CASE bt \in {0, 2, 10, 13} ->
         LET b == ByteAt(off)
         IN IF b = Undefined THEN Undef ELSE IF b = 255 THEN Null ELSE Num(b)
    [] bt = 1 ->
         LET b == bytes[ToIndex(off) + 1]
             v == IF b >= 128 THEN b - 256 ELSE b
         IN IF v = 127 THEN Null ELSE Num(v)
    [] bt = 3 ->
         LET u == GetUint16(off, le)
             v == IF u >= 32768 THEN u - 65536 ELSE u
         IN IF v = 32767 THEN Null ELSE Num(v)
    [] bt \in {4, 11} ->
         LET u == GetUint16(off, le)
         IN IF u = 65535 THEN Null ELSE Num(u)
    [] bt = 5 ->
         LET hi == High16(off, le)
             lo == Low16(off, le)
         IN IF hi = 32767 /\ lo = 65535 THEN Null
            ELSE IF hi >= 32768 THEN Num((hi - 65536) * 65536 + lo)
            ELSE Num(hi * 65536 + lo)
    [] bt \in {6, 12} ->
         LET hi == High16(off, le)
             lo == Low16(off, le)
         IN IF hi = 65535 /\ lo = 65535 THEN Null
            ELSE IF hi >= 32768 THEN Big(hi, lo)
            ELSE Num(hi * 65536 + lo)
    [] bt = 7 -> Str(ReadString(off, 0, size))
    [] bt = 8 -> Float("f32", FloatBits(off, 4, le))
    [] bt = 9 -> Float("f64", FloatBits(off, 8, le))
    [] OTHER -> Null

\* the bytes a DataView getter needs for base type bt (0: no DataView read)
GetterWidth(bt) ==
  CASE bt = 1 -> 1
    [] bt \in {3, 4, 11} -> 2
    [] bt \in {5, 6, 12, 8} -> 4
    [] bt = 9 -> 8
    [] OTHER -> 0

\* mutant of readFieldValue: the cursor advances by the width of the base
\* type (1 for the byte types) and not by the declared size
readFieldValueNaturalWidth(field, le, off) ==
  LET bt == Bits(field.baseType, 1, 32)
      width == IF bt \in {0, 2, 10, 13} THEN 1
               ELSE IF GetterWidth(bt) > 0 THEN GetterWidth(bt)
               ELSE field.size
  IN IF ~InRange(off, GetterWidth(bt))
     THEN FieldResult(Undef, off, TRUE)
     ELSE FieldResult(FieldValue(bt, off, field.size, le),
                      AddOffset(off, width), FALSE)

\* mutant of readFieldValue: an unknown base type returns before the
\* cursor is advanced
readFieldValueUnknownStays(field, le, off) ==
  LET bt == Bits(field.baseType, 1, 32)
  IN IF ~InRange(off, GetterWidth(bt))
     THEN FieldResult(Undef, off, TRUE)
     ELSE FieldResult(FieldValue(bt, off, field.size, le),
                      IF bt \in 0..13 THEN AddOffset(off, field.size) ELSE off,
                      FALSE)

readFieldValue(field, le, off) ==
  LET bt == Bits(field.baseType, 1, 32)
  IN IF ~InRange(off, GetterWidth(bt))
     THEN FieldResult(Undef, off, TRUE)
     ELSE FieldResult(FieldValue(bt, off, field.size, le),
                      AddOffset(off, field.size), FALSE)

-----------------------------------------------------------------------------
(* readDataMessage: one message decoded with definition def at cursor off. *)
(* A message is [mesgNum, fields]: fields maps each field number of the    *)
(* definition (Undefined for a descriptor read past the buffer's end) to   *)
(* its value; a later descriptor with the same number overwrites.          *)

MsgResult(msg, off, threw) == [msg |-> msg, offset |-> off, threw |-> threw]

\* mutant of SetField: a key that has a value keeps it
SetFieldKeepsFirst(fs, key, val) ==
  [x \in DOMAIN fs \cup {key} |-> IF x \in DOMAIN fs THEN fs[x] ELSE val]

SetField(fs, key, val) ==
  [x \in DOMAIN fs \cup {key} |-> IF x = key THEN val ELSE fs[x]]

RECURSIVE ReadFields(_, _, _, _, _)
ReadFields(fields, i, le, off, fs) ==
  IF i > Len(fields) THEN [fs |-> fs, offset |-> off, threw |-> FALSE]
  ELSE LET r == readFieldValue(fields[i], le, off)
       IN IF r.threw THEN [fs |-> fs, offset |-> off, threw |-> TRUE]
          ELSE ReadFields(fields, i + 1, le, r.offset,
                          SetField(fs, fields[i].fieldDefNum, r.val))

RECURSIVE SkipDevFields(_, _, _)
SkipDevFields(devFields, i, off) ==
  IF i > Len(devFields) THEN off
  ELSE SkipDevFields(devFields, i + 1, AddOffset(off, devFields[i].size))

EmptyFields == [x \in {} |-> Null]

readDataMessage(def, off) ==
  LET r == ReadFields(def.fields, 1, def.littleEndian, off, EmptyFields)
  IN MsgResult([mesgNum |-> def.globalMesgNum, fields |-> r.fs],
               IF r.threw THEN r.offset ELSE SkipDevFields(def.devFields, 1, r.offset),
               r.threw)

-----------------------------------------------------------------------------
(* The definition record whose header byte is at off - 1 (cursor at off).  *)

\* numFields descriptors of three bytes from cursor off; none when the
\* count byte is undefined (i < undefined is false)
Descriptors(off, count) ==
  [i \in 1..(IF count = Undefined THEN 0 ELSE count) |->
     <<ByteAt(off + 3 * (i - 1)), ByteAt(off + 3 * (i - 1) + 1), ByteAt(off + 3 * (i - 1) + 2)>>]

ReadDefinition(off, hasDeveloperData) ==
  LET arch == ByteAt(off + 1)
      littleEndian == arch = 0
      numFields == ByteAt(off + 4)
      fieldsAt == off + 5
      fds == Descriptors(fieldsAt, numFields)
      afterFields == fieldsAt + 3 * Len(fds)
      numDevFields == IF hasDeveloperData THEN ByteAt(afterFields) ELSE 0
      dds == Descriptors(afterFields + 1, numDevFields)
  IN [threw |-> ~InRange(off + 2, 2),
      def |-> [globalMesgNum |-> IF InRange(off + 2, 2)
                                 THEN GetUint16(off + 2, littleEndian) ELSE 0,
               fields |-> [i \in DOMAIN fds |->
                             [fieldDefNum |-> fds[i][1], size |-> fds[i][2],
                              baseType |-> fds[i][3]]],
               devFields |-> [i \in DOMAIN dds |->
                                [fNum |-> dds[i][1], size |-> dds[i][2],
                                 devIdx |-> dds[i][3]]],
               littleEndian |-> littleEndian],
      offset |-> IF hasDeveloperData THEN afterFields + 1 + 3 * Len(dds)
                 ELSE afterFields]

-----------------------------------------------------------------------------
(* Input buffers.  A buffer is a 12- or 14-byte file header, a data        *)
(* section that concatenates up to MaxChunks byte chunks, and a 2-byte     *)
(* CRC.  The chunks are records or pieces of records; the decoder does not *)
(* know where a chunk ends, so a stream can also be out of step with its   *)
(* definitions.                                                            *)

MaxChunks == 4

\* ".FIT" and a tag that differs in its first byte ("XFIT")
FitTag == <<46, 70, 73, 84>>
BadTag == <<88, 70, 73, 84>>

\* definition, key 0, little-endian, global 20:
\*   253 uint8 (1 byte), 13 sint8 (1 byte)
DefRecord == <<64, 0, 0, 20, 0, 2, 253, 1, 2, 13, 1, 1>>
\* definition, key 1, developer data, big-endian, global 18:
\*   4 uint32 (0 bytes), 8 float32 (0 bytes), 7 uint16 (2 bytes),
\*   5 string (1 byte); one developer field, number 0, of 1 byte
DefSession ==
  <<97, 0, 1, 0, 18, 4, 4, 0, 134, 8, 0, 136, 7, 2, 132, 5, 1, 7, 1, 0, 1, 0>>
\* definition, key 0 again, little-endian, global 268:
\*   2 of unknown base type 20 (1 byte), 3 uint8 (1 byte)
DefSummary == <<64, 0, 0, 12, 1, 2, 2, 1, 20, 3, 1, 2>>
\* a definition for key 0, global 20, whose only descriptor (field 253)
\* is cut after the field number
CutDefinition == <<64, 0, 0, 20, 0, 1, 253>>

Chunks ==
  { DefRecord, DefSession, DefSummary,
    <<0, 5, 7>>,          \* data record, key 0, two payload bytes
    <<0, 9, 255, 0, 6, 8>>,  \* two data records, key 0; 255 is a sentinel
    <<1, 0, 3, 48, 0>>,   \* data record, key 1, four payload bytes
    <<2>>,                \* data record header, key 2 (never defined)
    <<128, 6, 2>>,        \* compressed-timestamp record, key 0
    <<160>> }             \* compressed-timestamp header, key 1

RECURSIVE Bodies(_)
Bodies(n) ==
  IF n = 0 THEN {<<>>}
  ELSE LET shorter == Bodies(n - 1)
       IN shorter \cup {b \o c : b \in shorter, c \in Chunks}

\* header bytes: size, protocol version, profile version (2), data size (4,
\* little-endian), tag (4), and a 2-byte header CRC when the size is 14
Header(headerSize, dataSize, tag) ==
  <<headerSize, 16, 0, 0, dataSize % 256, dataSize \div 256, 0, 0>> \o tag
    \o (IF headerSize = 14 THEN <<0, 0>> ELSE <<>>)

FileCrc == <<0, 0>>

Buffers ==
  \* complete files, with either header size
  { Header(12, Len(b), FitTag) \o b \o FileCrc : b \in Bodies(MaxChunks) }
  \cup { Header(14, Len(b), FitTag) \o b \o FileCrc : b \in Bodies(MaxChunks - 1) }
  \* the declared data size is 2 bytes short of, or 4 bytes beyond, the data
  \cup { Header(12, Len(b) - 2, FitTag) \o b \o FileCrc : b \in Bodies(MaxChunks - 1) \ {<<>>} }
  \cup { Header(12, Len(b) + 4, FitTag) \o b \o FileCrc : b \in Bodies(MaxChunks - 1) }
  \* wrong tag
  \cup { Header(12, Len(b), BadTag) \o b \o FileCrc : b \in Bodies(2) }
  \* files cut inside a definition, with a data size that goes on
  \cup { Header(12, Len(b) + 10, FitTag) \o b \o CutDefinition : b \in Bodies(1) }
  \* files cut inside the header
  \cup { SubSeq(Header(12, 0, FitTag), 1, n) : n \in {0, 6, 10} }

-----------------------------------------------------------------------------
(* The state of the application, of the charts and of the service worker   *)
(* when nothing has happened yet.                                          *)

\* let currentDive = null; the list view is the one shown
AppIdle ==
  /\ currentDive = Null
  /\ view = "list"
  /\ pending = <<>>

\* let cursor1Idx = null, cursor2Idx = null, longPressTimer = null,
\* longPressActive = false; no finger on a chart.  A cursor is null or the
\* number of a sample; longPressTimer is <<>> for null, else the timer with
\* the position of the touch it was set for and whether it has run;
\* touches holds, for each finger on the canvas, the sample under it, null
\* when the finger is outside the chart area
ChartsIdle ==
  /\ cursor1Idx = Null
  /\ cursor2Idx = Null
  /\ longPressActive = FALSE
  /\ longPressTimer = <<>>
  /\ touches = <<>>

\* no cache, the worker not installed; cacheStorage maps each cache name
\* to the requests it has a response for
WorkerIdle ==
  /\ cacheStorage = [name \in {} |-> {}]
  /\ swState = "none"
  /\ cacheKeys = {}
  /\ response = <<>>

-----------------------------------------------------------------------------
(* parseFIT *)

NoDive == [status |-> "none"]

Init ==
  /\ bytes \in Buffers
  /\ pc = "start"
  /\ err = "none"
  /\ offset = 0
  /\ endOfData = 0
  /\ definitions = [x \in {} |-> 0]
  /\ messages = <<>>
  /\ scanned = <<>>
  /\ dive = NoDive
  /\ earlier = <<>>
  /\ store = <<>>
  /\ dives = <<>>
  /\ AppIdle /\ ChartsIdle /\ WorkerIdle

\* mutant of dataType: the first byte of the tag is not compared
dataTypeSkipsFirst == [i \in 1..4 |-> IF i = 1 THEN 46 ELSE ToInt32(ByteAt(7 + i))]

\* String.fromCharCode(bytes[8], ..., bytes[11]); undefined gives char 0
dataType == [i \in 1..4 |-> ToInt32(ByteAt(7 + i))]

\* an exception leaves parseFIT (and extractDiveFromBuffer, its caller):
\* nothing is returned
Throw(e) ==
  /\ pc' = "threw"
  /\ err' = e
  /\ UNCHANGED <<messages, dive>>

\* mutant of ParseHeader: the records are taken to start at offset 12
ParseHeaderFixedSize ==
  /\ pc = "start"
  /\ IF ~InRange(2, 2) \/ ~InRange(4, 4)
     THEN /\ Throw("RangeError")
          /\ UNCHANGED <<offset, endOfData>>
     ELSE IF dataType # FitTag
     THEN /\ Throw("Not a valid FIT file")
          /\ UNCHANGED <<offset, endOfData>>
     ELSE /\ pc' = "loop"
          /\ offset' = 12
          /\ endOfData' = bytes[1] + (Low16(4, TRUE) + 65536 * High16(4, TRUE))
          /\ UNCHANGED <<err, messages, dive>>
  /\ UNCHANGED <<appVars, chartVars, workerVars, store, dives, earlier, bytes, definitions, scanned>>

\* the header: lines 50-62
ParseHeader ==
  /\ pc = "start"
  /\ IF ~InRange(2, 2) \/ ~InRange(4, 4)
     THEN /\ Throw("RangeError")
          /\ UNCHANGED <<offset, endOfData>>
     ELSE IF dataType # FitTag
     THEN /\ Throw("Not a valid FIT file")
          /\ UNCHANGED <<offset, endOfData>>
     ELSE /\ pc' = "loop"
          /\ offset' = bytes[1]
          /\ endOfData' = bytes[1] + (Low16(4, TRUE) + 65536 * High16(4, TRUE))
          /\ UNCHANGED <<err, messages, dive>>
  /\ UNCHANGED <<appVars, chartVars, workerVars, store, dives, earlier, bytes, definitions, scanned>>

\* mutant of StoreDefinition: the table is left with this definition alone
StoreDefinitionAlone(defs, key, def) == [x \in {key} |-> def]

\* mutant of StoreDefinition: a key that has a definition keeps it
StoreDefinitionKeepsFirst(defs, key, def) ==
  IF key \in DOMAIN defs THEN defs ELSE SetField(defs, key, def)

\* definitions[localMesgType] = {...}: line 116
StoreDefinition(defs, key, def) == SetField(defs, key, def)

\* bytes[offset++] at the top of the loop
recordHeader == ByteAt(offset)

\* what one iteration of the record loop did: the offset of its header
\* byte, the kind and key of the record, the definition it was decoded
\* with or stored (<<>> when none), whether a message was appended, and the
\* cursor after it
Scan(kind, key, def, decoded, end) ==
  [at |-> offset, kind |-> kind, key |-> key, def |-> def,
   decoded |-> decoded, end |-> end]

\* mutant of Decode: a compressed-timestamp record pushes no message
DecodeDropsCompressed(kind, key) ==
  LET r == readDataMessage(definitions[key], offset + 1)
  IN IF r.threw
     THEN /\ Throw("RangeError")
          /\ UNCHANGED <<offset, scanned>>
     ELSE /\ messages' = IF kind = "compressed" THEN messages ELSE Append(messages, r.msg)
          /\ offset' = r.offset
          /\ scanned' = Append(scanned, Scan(kind, key, <<definitions[key]>>, TRUE, r.offset))
          /\ UNCHANGED <<pc, err, dive>>

\* mutant of Decode: the header byte is read without moving the cursor
DecodeKeepsCursor(kind, key) ==
  LET r == readDataMessage(definitions[key], offset)
  IN IF r.threw
     THEN /\ Throw("RangeError")
          /\ UNCHANGED <<offset, scanned>>
     ELSE /\ messages' = Append(messages, r.msg)
          /\ offset' = r.offset
          /\ scanned' = Append(scanned, Scan(kind, key, <<definitions[key]>>, TRUE, r.offset))
          /\ UNCHANGED <<pc, err, dive>>

\* mutant of Decode: the message is put in front (unshift for push)
DecodePrepends(kind, key) ==
  LET r == readDataMessage(definitions[key], offset + 1)
  IN IF r.threw
     THEN /\ Throw("RangeError")
          /\ UNCHANGED <<offset, scanned>>
     ELSE /\ messages' = <<r.msg>> \o messages
          /\ offset' = r.offset
          /\ scanned' = Append(scanned, Scan(kind, key, <<definitions[key]>>, TRUE, r.offset))
          /\ UNCHANGED <<pc, err, dive>>

\* readDataMessage(def) and messages.push(msg): lines 76-77 and 124-125
Decode(kind, key) ==
  LET r == readDataMessage(definitions[key], offset + 1)
  IN IF r.threw
     THEN /\ Throw("RangeError")
          /\ UNCHANGED <<offset, scanned>>
     ELSE /\ messages' = Append(messages, r.msg)
          /\ offset' = r.offset
          /\ scanned' = Append(scanned, Scan(kind, key, <<definitions[key]>>, TRUE, r.offset))
          /\ UNCHANGED <<pc, err, dive>>

\* compressed-timestamp header with a stored definition: lines 71-79
CompressedRecord ==
  /\ pc = "loop"
  /\ Lt(offset, endOfData)
  /\ Bit(recordHeader, 128)
  /\ Bits(recordHeader, 32, 4) \in DOMAIN definitions
  /\ Decode("compressed", Bits(recordHeader, 32, 4))
  /\ UNCHANGED <<appVars, chartVars, workerVars, store, dives, earlier, bytes, endOfData, definitions>>

\* mutant of CompressedSkip: the loop ends, as for a data record
CompressedSkipBreaks ==
  /\ pc = "loop"
  /\ Lt(offset, endOfData)
  /\ Bit(recordHeader, 128)
  /\ Bits(recordHeader, 32, 4) \notin DOMAIN definitions
  /\ pc' = "parsed"
  /\ offset' = offset + 1
  /\ scanned' = Append(scanned, Scan("compressed", Bits(recordHeader, 32, 4), <<>>, FALSE, offset + 1))
  /\ UNCHANGED <<appVars, chartVars, workerVars, store, dives, earlier, bytes, err, endOfData, definitions, messages, dive>>

\* compressed-timestamp header with no definition for its key: lines 71-79
CompressedSkip ==
  /\ pc = "loop"
  /\ Lt(offset, endOfData)
  /\ Bit(recordHeader, 128)
  /\ Bits(recordHeader, 32, 4) \notin DOMAIN definitions
  /\ offset' = offset + 1
  /\ scanned' = Append(scanned, Scan("compressed", Bits(recordHeader, 32, 4), <<>>, FALSE, offset + 1))
  /\ UNCHANGED <<appVars, chartVars, workerVars, store, dives, earlier, bytes, pc, err, endOfData, definitions, messages, dive>>

\* mutant of DefinitionRecord: the key is the low 5 bits of the header
DefinitionRecordWideKey ==
  /\ pc = "loop"
  /\ Lt(offset, endOfData)
  /\ ~Bit(recordHeader, 128)
  /\ Bit(recordHeader, 64)
  /\ LET localMesgType == Bits(recordHeader, 1, 32)
         r == ReadDefinition(offset + 1, Bit(recordHeader, 32))
     IN IF r.threw
        THEN /\ Throw("RangeError")
             /\ UNCHANGED <<offset, definitions, scanned>>
        ELSE /\ definitions' = StoreDefinition(definitions, localMesgType, r.def)
             /\ offset' = r.offset
             /\ scanned' = Append(scanned, Scan("definition", localMesgType, <<r.def>>, FALSE, r.offset))
             /\ UNCHANGED <<pc, err, messages, dive>>
  /\ UNCHANGED <<appVars, chartVars, workerVars, store, dives, earlier, bytes, endOfData>>

\* definition record: lines 82-116
DefinitionRecord ==
  /\ pc = "loop"
  /\ Lt(offset, endOfData)
  /\ ~Bit(recordHeader, 128)
  /\ Bit(recordHeader, 64)
  /\ LET localMesgType == Bits(recordHeader, 1, 16)
         r == ReadDefinition(offset + 1, Bit(recordHeader, 32))
     IN IF r.threw
        THEN /\ Throw("RangeError")
             /\ UNCHANGED <<offset, definitions, scanned>>
        ELSE /\ definitions' = StoreDefinition(definitions, localMesgType, r.def)
             /\ offset' = r.offset
             /\ scanned' = Append(scanned, Scan("definition", localMesgType, <<r.def>>, FALSE, r.offset))
             /\ UNCHANGED <<pc, err, messages, dive>>
  /\ UNCHANGED <<appVars, chartVars, workerVars, store, dives, earlier, bytes, endOfData>>

\* data record with a stored definition: lines 82-84, 118-125
DataRecord ==
  /\ pc = "loop"
  /\ Lt(offset, endOfData)
  /\ ~Bit(recordHeader, 128)
  /\ ~Bit(recordHeader, 64)
  /\ Bits(recordHeader, 1, 16) \in DOMAIN definitions
  /\ Decode("data", Bits(recordHeader, 1, 16))
  /\ UNCHANGED <<appVars, chartVars, workerVars, store, dives, earlier, bytes, endOfData, definitions>>

\* mutant of DataBreak: an exception instead of break
DataBreakThrows ==
  /\ pc = "loop"
  /\ Lt(offset, endOfData)
  /\ ~Bit(recordHeader, 128)
  /\ ~Bit(recordHeader, 64)
  /\ Bits(recordHeader, 1, 16) \notin DOMAIN definitions
  /\ Throw("RangeError")
  /\ offset' = offset + 1
  /\ scanned' = Append(scanned, Scan("data", Bits(recordHeader, 1, 16), <<>>, FALSE, offset + 1))
  /\ UNCHANGED <<appVars, chartVars, workerVars, store, dives, earlier, bytes, endOfData, definitions>>

\* mutant of DataBreak: continue instead of break
DataBreakContinues ==
  /\ pc = "loop"
  /\ Lt(offset, endOfData)
  /\ ~Bit(recordHeader, 128)
  /\ ~Bit(recordHeader, 64)
  /\ Bits(recordHeader, 1, 16) \notin DOMAIN definitions
  /\ offset' = offset + 1
  /\ scanned' = Append(scanned, Scan("data", Bits(recordHeader, 1, 16), <<>>, FALSE, offset + 1))
  /\ UNCHANGED <<appVars, chartVars, workerVars, store, dives, earlier, bytes, pc, err, endOfData, definitions, messages, dive>>

\* data record with no definition for its key: break, lines 119-123, then
\* return messages, line 205
DataBreak ==
  /\ pc = "loop"
  /\ Lt(offset, endOfData)
  /\ ~Bit(recordHeader, 128)
  /\ ~Bit(recordHeader, 64)
  /\ Bits(recordHeader, 1, 16) \notin DOMAIN definitions
  /\ pc' = "parsed"
  /\ offset' = offset + 1
  /\ scanned' = Append(scanned, Scan("data", Bits(recordHeader, 1, 16), <<>>, FALSE, offset + 1))
  /\ UNCHANGED <<appVars, chartVars, workerVars, store, dives, earlier, bytes, err, endOfData, definitions, messages, dive>>

\* the loop condition fails: return messages, lines 67 and 205
ParseReturn ==
  /\ pc = "loop"
  /\ ~Lt(offset, endOfData)
  /\ pc' = "parsed"
  /\ UNCHANGED <<appVars, chartVars, workerVars, store, dives, earlier, bytes, err, offset, endOfData, definitions, messages, scanned, dive>>

-----------------------------------------------------------------------------
(* JavaScript arithmetic on the values the extraction consumes: numbers    *)
(* (exact fractions stand for the doubles), null, undefined and NaN.       *)

RECURSIVE GCD(_, _)
GCD(a, b) == IF b = 0 THEN a ELSE GCD(b, a % b)

Abs(x) == IF x < 0 THEN 0 - x ELSE x

\* the number n / d, d # 0, in lowest terms with a positive denominator
Rat(n, d) ==
  LET g == GCD(Abs(n), Abs(d))
      sign == IF d < 0 THEN 0 - 1 ELSE 1
  IN [k |-> "num", n |-> sign * (n \div g), d |-> Abs(d) \div g, s |-> <<>>]

\* ToNumber
ToNumber(v) ==
  CASE v.k = "num" -> v
    [] v.k = "null" -> Num(0)
    [] v.k = "undefined" -> NaN
    [] v.k = "nan" -> NaN

\* mutant of Minus: b - a
MinusSwapped(a, b) ==
  LET x == ToNumber(a)
      y == ToNumber(b)
  IN IF x.k = "nan" \/ y.k = "nan" THEN NaN
     ELSE Rat(y.n * x.d - x.n * y.d, x.d * y.d)

\* a - b
Minus(a, b) ==
  LET x == ToNumber(a)
      y == ToNumber(b)
  IN IF x.k = "nan" \/ y.k = "nan" THEN NaN
     ELSE Rat(x.n * y.d - y.n * x.d, x.d * y.d)

\* the quotient of a 32-bit integer of 2^31 or more by the integer b: the
\* two halves of the dividend, and the divisor
BigOver(a, b) == [k |-> "big", n |-> a.n, d |-> a.d, s |-> <<b.n>>]

\* a / b for b # 0
Divide(a, b) ==
  IF a.k = "big" THEN BigOver(a, b)
  ELSE LET x == ToNumber(a)
           y == ToNumber(b)
       IN IF x.k = "nan" \/ y.k = "nan" THEN NaN
          ELSE Rat(x.n * y.d, x.d * y.n)

\* a > b on numbers; false when either is NaN
Greater(a, b) ==
  LET x == ToNumber(a)
      y == ToNumber(b)
  IN x.k = "num" /\ y.k = "num" /\ x.n * y.d > y.n * x.d

\* v != null
NotNullish(v) == v.k \notin {"null", "undefined"}

\* truthiness, as in v ? a : b and v || b
Truthy(v) ==
  CASE v.k = "num" -> v.n # 0
    [] v.k \in {"null", "undefined", "nan"} -> FALSE
    [] v.k = "str" -> v.s # <<>>
    [] v.k = "big" -> TRUE

\* Math.max(...vs) and Math.min(...vs) over a non-empty sequence of numbers
RECURSIVE MathMax(_)
MathMax(vs) ==
  IF Len(vs) = 1 THEN vs[1]
  ELSE LET m == MathMax(Tail(vs))
       IN IF Greater(vs[1], m) THEN vs[1] ELSE m

\* mutant of MathMin: the greatest value
MathMinGreatest(vs) == MathMax(vs)

RECURSIVE MathMin(_)
MathMin(vs) ==
  IF Len(vs) = 1 THEN vs[1]
  ELSE LET m == MathMin(Tail(vs))
       IN IF Greater(m, vs[1]) THEN vs[1] ELSE m

-----------------------------------------------------------------------------
(* extractDiveFromBuffer *)

GARMIN_EPOCH == 631065600

\* a Date, as seconds since 1970
Date(seconds) == [k |-> "date", n |-> seconds, d |-> 1, s |-> <<>>]

\* the Date of a timestamp of 2^31 or more, given by its halves hi and lo:
\* the seconds since 1970 are n * 65536 + d
DateOfBig(hi, lo) ==
  [k |-> "date",
   n |-> hi + (GARMIN_EPOCH \div 65536) + ((lo + (GARMIN_EPOCH % 65536)) \div 65536),
   d |-> (lo + (GARMIN_EPOCH % 65536)) % 65536,
   s |-> <<65536>>]

\* new Date(NaN)
InvalidDate == [k |-> "invalid date", n |-> 0, d |-> 1, s |-> <<>>]

\* the number written by the digits of chars from index a to index b
RECURSIVE NumberAt(_, _, _)
NumberAt(chars, a, b) ==
  IF a > b THEN 0 ELSE 10 * NumberAt(chars, a, b - 1) + (chars[b] - 48)

\* new Date((text + GARMIN_EPOCH) * 1000): the epoch is appended to the
\* text as digits; digits alone write a number, a letter makes it NaN
DateOfText(chars) ==
  IF \A i \in DOMAIN chars : chars[i] \in 48..57
  THEN Date(NumberAt(chars \o <<54, 51, 49, 48, 54, 53, 54, 48, 48>>, 1, Len(chars) + 9))
  ELSE InvalidDate

\* mutant of garminTimestampToDate: 0 is converted like any number
garminTimestampToDateOfZero(ts) ==
  IF ts.k = "big" THEN DateOfBig(ts.n, ts.d)
  ELSE IF ts.k = "num" THEN Date(ts.n + GARMIN_EPOCH)
  ELSE Null

garminTimestampToDate(ts) ==
  IF ~Truthy(ts) THEN Null
  ELSE IF ts.k = "big" THEN DateOfBig(ts.n, ts.d)
  ELSE IF ts.k = "str" THEN DateOfText(ts.s)
  ELSE Date(ts.n + GARMIN_EPOCH)

\* m[f]: undefined when the message has no such field
Get(m, f) == IF f \in DOMAIN m.fields THEN m.fields[f] ELSE Undef

\* the value of {} [f]
EmptyMessage == [mesgNum |-> 0, fields |-> EmptyFields]

\* mutant of OfType: no filter
OfTypeAll(msgs, num) == msgs

\* messages.filter(m => m._mesgNum === num)
OfType(msgs, num) == SelectSeq(msgs, LAMBDA m : m.mesgNum = num)

\* mutant of Scaled: v ? v / 1000 : null
ScaledTruthy(v) == IF Truthy(v) THEN Divide(v, Num(1000)) ELSE Null

\* mutant of Scaled: millimetres are taken for centimetres
ScaledByHundred(v) == IF NotNullish(v) THEN Divide(v, Num(100)) ELSE Null

\* v != null ? v / 1000 : null
Scaled(v) == IF NotNullish(v) THEN Divide(v, Num(1000)) ELSE Null

\* records.map(r => ...): lines 604-614
Sample(r, firstTs) ==
  [elapsed |-> Minus(Get(r, 253), firstTs),
   depth |-> Scaled(Get(r, 92)),
   ascentRate |-> Scaled(Get(r, 127)),
   temperature |-> Get(r, 13),
   ndl |-> Get(r, 96),
   cns |-> Get(r, 93)]

\* mutant of Backfill: the rate is taken from the first sample
BackfillFromFirst(samples) ==
  [i \in DOMAIN samples |->
     IF /\ i > 1
        /\ ~NotNullish(samples[i].ascentRate)
        /\ NotNullish(samples[i].depth)
        /\ NotNullish(samples[i - 1].depth)
        /\ Greater(Minus(samples[i].elapsed, samples[i - 1].elapsed), Num(0))
     THEN [samples[i] EXCEPT !.ascentRate =
             Divide(Minus(samples[1].depth, samples[i].depth),
                    Minus(samples[i].elapsed, samples[i - 1].elapsed))]
     ELSE samples[i]]

\* mutant of Backfill: the depth of the sample before is not tested
BackfillAnyPrevious(samples) ==
  [i \in DOMAIN samples |->
     IF /\ i > 1
        /\ ~NotNullish(samples[i].ascentRate)
        /\ NotNullish(samples[i].depth)
        /\ Greater(Minus(samples[i].elapsed, samples[i - 1].elapsed), Num(0))
     THEN [samples[i] EXCEPT !.ascentRate =
             Divide(Minus(samples[i - 1].depth, samples[i].depth),
                    Minus(samples[i].elapsed, samples[i - 1].elapsed))]
     ELSE samples[i]]

\* mutant of Backfill: the depth difference is taken the other way
BackfillDescent(samples) ==
  [i \in DOMAIN samples |->
     IF /\ i > 1
        /\ ~NotNullish(samples[i].ascentRate)
        /\ NotNullish(samples[i].depth)
        /\ NotNullish(samples[i - 1].depth)
        /\ Greater(Minus(samples[i].elapsed, samples[i - 1].elapsed), Num(0))
     THEN [samples[i] EXCEPT !.ascentRate =
             Divide(Minus(samples[i].depth, samples[i - 1].depth),
                    Minus(samples[i].elapsed, samples[i - 1].elapsed))]
     ELSE samples[i]]

\* the ascent-rate loop: lines 617-624
Backfill(samples) ==
  [i \in DOMAIN samples |->
     IF /\ i > 1
        /\ ~NotNullish(samples[i].ascentRate)
        /\ NotNullish(samples[i].depth)
        /\ NotNullish(samples[i - 1].depth)
        /\ Greater(Minus(samples[i].elapsed, samples[i - 1].elapsed), Num(0))
     THEN [samples[i] EXCEPT !.ascentRate =
             Divide(Minus(samples[i - 1].depth, samples[i].depth),
                    Minus(samples[i].elapsed, samples[i - 1].elapsed))]
     ELSE samples[i]]

\* s.depth || 0
DepthOrZero(sample) == IF Truthy(sample.depth) THEN sample.depth ELSE Num(0)

\* mutant of ExtractDive: the last session message is used
ExtractDiveLastSession(msgs) ==
  LET records == OfType(msgs, 20)
      sessions == OfType(msgs, 18)
      diveSummaries == OfType(msgs, 268)
      firstTs == Get(records[1], 253)
      samples == Backfill([i \in DOMAIN records |-> Sample(records[i], firstTs)])
      session == IF sessions # <<>> THEN sessions[Len(sessions)] ELSE EmptyMessage
      summary == IF diveSummaries # <<>> THEN diveSummaries[1] ELSE EmptyMessage
      temps == SelectSeq([i \in DOMAIN samples |-> samples[i].temperature],
                         LAMBDA t : NotNullish(t))
  IN [status |-> "dive",
      startDate |-> garminTimestampToDate(
                      IF Truthy(Get(session, 2)) THEN Get(session, 2) ELSE firstTs),
      totalTime |-> IF Truthy(Get(session, 7))
                    THEN Divide(Get(session, 7), Num(1000))
                    ELSE samples[Len(samples)].elapsed,
      maxDepth |-> IF Truthy(Get(summary, 3))
                   THEN Divide(Get(summary, 3), Num(1000))
                   ELSE MathMax([i \in DOMAIN samples |-> DepthOrZero(samples[i])]),
      avgDepth |-> IF Truthy(Get(summary, 2))
                   THEN Divide(Get(summary, 2), Num(1000))
                   ELSE Null,
      minTemp |-> IF temps # <<>> THEN MathMin(temps) ELSE Null,
      maxTemp |-> IF temps # <<>> THEN MathMax(temps) ELSE Null,
      samples |-> samples]

ExtractDive(msgs) ==
  LET records == OfType(msgs, 20)
      sessions == OfType(msgs, 18)
      diveSummaries == OfType(msgs, 268)
      firstTs == Get(records[1], 253)
      samples == Backfill([i \in DOMAIN records |-> Sample(records[i], firstTs)])
      session == IF sessions # <<>> THEN sessions[1] ELSE EmptyMessage
      summary == IF diveSummaries # <<>> THEN diveSummaries[1] ELSE EmptyMessage
      temps == SelectSeq([i \in DOMAIN samples |-> samples[i].temperature],
                         LAMBDA t : NotNullish(t))
  IN [status |-> "dive",
      startDate |-> garminTimestampToDate(
                      IF Truthy(Get(session, 2)) THEN Get(session, 2) ELSE firstTs),
      totalTime |-> IF Truthy(Get(session, 7))
                    THEN Divide(Get(session, 7), Num(1000))
                    ELSE samples[Len(samples)].elapsed,
      maxDepth |-> IF Truthy(Get(summary, 3))
                   THEN Divide(Get(summary, 3), Num(1000))
                   ELSE MathMax([i \in DOMAIN samples |-> DepthOrZero(samples[i])]),
      avgDepth |-> IF Truthy(Get(summary, 2))
                   THEN Divide(Get(summary, 2), Num(1000))
                   ELSE Null,
      minTemp |-> IF temps # <<>> THEN MathMin(temps) ELSE Null,
      maxTemp |-> IF temps # <<>> THEN MathMax(temps) ELSE Null,
      samples |-> samples]

\* mutant of Extract: the error is also raised when there is no session
ExtractNeedsSession ==
  /\ pc = "parsed"
  /\ IF OfType(messages, 20) = <<>> \/ OfType(messages, 18) = <<>>
     THEN /\ pc' = "threw"
          /\ err' = "No dive records found in FIT file"
          /\ UNCHANGED dive
     ELSE /\ pc' = "done"
          /\ dive' = ExtractDive(messages)
          /\ UNCHANGED err
  /\ UNCHANGED <<appVars, chartVars, workerVars, store, dives, earlier, bytes, offset, endOfData, definitions, messages, scanned>>

\* extractDiveFromBuffer after parseFIT has returned: lines 593-652
Extract ==
  /\ pc = "parsed"
  /\ IF OfType(messages, 20) = <<>>
     THEN /\ pc' = "threw"
          /\ err' = "No dive records found in FIT file"
          /\ UNCHANGED dive
     ELSE /\ pc' = "done"
          /\ dive' = ExtractDive(messages)
          /\ UNCHANGED err
  /\ UNCHANGED <<appVars, chartVars, workerVars, store, dives, earlier, bytes, offset, endOfData, definitions, messages, scanned>>

Next ==
  \/ ParseHeader
  \/ CompressedRecord
  \/ CompressedSkip
  \/ DefinitionRecord
  \/ DataRecord
  \/ DataBreak
  \/ ParseReturn
  \/ Extract

Spec == Init /\ [][Next]_vars

-----------------------------------------------------------------------------
(* Written files: definition records and data records encoded field by     *)
(* field, every record whole and the data size that of the records.        *)

\* the n low bytes of v, least significant first (two's complement)
RECURSIVE LittleBytes(_, _)
LittleBytes(v, n) ==
  IF n = 0 THEN <<>> ELSE <<v % 256>> \o LittleBytes(v \div 256, n - 1)

Reverse(s) == [x \in 1..Len(s) |-> s[Len(s) + 1 - x]]

\* v in n bytes, in the byte order of the definition
Encode(v, n, le) == IF le THEN LittleBytes(v, n) ELSE Reverse(LittleBytes(v, n))

RECURSIVE Flatten(_)
Flatten(seqs) == IF seqs = <<>> THEN <<>> ELSE Head(seqs) \o Flatten(Tail(seqs))

\* a field descriptor as the definition record holds it
Descriptor(num, size, type) == <<num, size, type>>

\* definition record for key: reserved byte, architecture, global number
\* in the architecture's byte order, field count, descriptors
WriteDefinition(key, le, globalMesgNum, descriptors) ==
  <<64 + key, 0, IF le THEN 0 ELSE 1>> \o Encode(globalMesgNum, 2, le)
    \o <<Len(descriptors)>> \o Flatten(descriptors)

\* data record for key: normal header, then the fields' bytes
WriteRecord(key, payloads) == <<key>> \o Flatten(payloads)

File(body) == Header(12, Len(body), FitTag) \o body \o FileCrc

\* base type bytes of the integer types as devices write them (bit 7 marks
\* a multi-byte type; the decoder keeps the low 5 bits)
IntegerTypes == {0, 1, 2, 131, 132, 133, 134, 10, 139, 140, 13}

IntegerBaseTypes == {0, 1, 2, 3, 4, 5, 6, 10, 11, 12, 13}

\* the bytes the decoder compares with the sentinel of base type bt
TypeWidth(bt) ==
  CASE bt \in {0, 1, 2, 10, 13} -> 1
    [] bt \in {3, 4, 11} -> 2
    [] bt \in {5, 6, 12} -> 4

\* the sentinel of base type bt in the byte order of the definition:
\* 0x7F, 0x7FFF, 0x7FFFFFFF for the signed types, all ones for the others
SentinelBytes(bt, le) ==
  CASE bt = 1 -> Encode(127, 1, le)
    [] bt = 3 -> Encode(32767, 2, le)
    [] bt = 5 -> Encode(2147483647, 4, le)
    [] OTHER -> Encode(0 - 1, TypeWidth(bt), le)

\* files with one record message (global 20) whose field 92 has an integer
\* type and holds the sentinel of either byte order or the bytes 01 00 ..,
\* alone, after a uint8 field 253, before a sint8 field 13, or between them
FieldFiles ==
  UNION { UNION { {
      File(WriteDefinition(0, le, 20,
                           (IF before THEN <<Descriptor(253, 1, 2)>> ELSE <<>>)
                             \o <<Descriptor(92, TypeWidth(type % 32), type)>>
                             \o (IF after THEN <<Descriptor(13, 1, 1)>> ELSE <<>>))
             \o WriteRecord(0, (IF before THEN <<<<7>>>> ELSE <<>>)
                                 \o <<payload>>
                                 \o (IF after THEN <<<<20>>>> ELSE <<>>)))
      : payload \in { SentinelBytes(type % 32, TRUE),
                      SentinelBytes(type % 32, FALSE),
                      LittleBytes(1, TypeWidth(type % 32)) } }
    : le \in BOOLEAN, before \in BOOLEAN, after \in BOOLEAN }
  : type \in IntegerTypes }

\* one uint32 field under a little-endian definition (key 0) and under a
\* big-endian one (key 1), a record of each with the bytes 01 00 00 00
EndianFile ==
  File(WriteDefinition(0, TRUE, 20, <<Descriptor(92, 4, 134)>>)
         \o WriteDefinition(1, FALSE, 20, <<Descriptor(92, 4, 134)>>)
         \o WriteRecord(0, <<<<1, 0, 0, 0>>>>)
         \o WriteRecord(1, <<<<1, 0, 0, 0>>>>))

MaxRecords == 3

\* a value as a written field holds it: <<v>>, or <<>> for the sentinel
Uint32Bytes(v) == IF v = <<>> THEN SentinelBytes(6, TRUE) ELSE Encode(v[1], 4, TRUE)
Sint32Bytes(v) == IF v = <<>> THEN SentinelBytes(5, TRUE) ELSE Encode(v[1], 4, TRUE)

Item(kind, ts, depth, rate) == [kind |-> kind, ts |-> ts, depth |-> depth, rate |-> rate]

\* the data records of a dive log: records with a timestamp, a depth in
\* mm or none and an ascent rate in mm/s or none, and a session message
\* that holds the same field numbers
DiveItems ==
  { Item("record", <<ts>>, depth, <<>>) :
      ts \in {1000, 1002}, depth \in {<<>>, <<8000>>, <<10000>>} }
  \cup { Item("record", <<ts>>, <<8000>>, <<0>>) : ts \in {1000, 1002} }
  \cup { Item("record", <<ts>>, <<10000>>, <<500>>) : ts \in {1000, 1002} }
  \cup { Item("session", <<1000>>, <<8000>>, <<>>) }

RECURSIVE ItemSeqs(_)
ItemSeqs(n) ==
  IF n = 0 THEN {<<>>}
  ELSE LET shorter == ItemSeqs(n - 1)
       IN shorter \cup {Append(b, c) : b \in shorter, c \in DiveItems}

\* key 0: record message (global 20) with timestamp 253 and depth 92 as
\* uint32 and, when withRate, ascent rate 127 as sint32; key 1: session
\* message (global 18) with fields 253 and 92
WriteItem(item, withRate) ==
  IF item.kind = "session"
  THEN WriteRecord(1, <<Uint32Bytes(item.ts), Uint32Bytes(item.depth)>>)
  ELSE WriteRecord(0, <<Uint32Bytes(item.ts), Uint32Bytes(item.depth)>>
                        \o (IF withRate THEN <<Sint32Bytes(item.rate)>> ELSE <<>>))

DiveFile(items, withRate) ==
  File(WriteDefinition(0, TRUE, 20,
                       <<Descriptor(253, 4, 134), Descriptor(92, 4, 134)>>
                         \o (IF withRate THEN <<Descriptor(127, 4, 133)>> ELSE <<>>))
         \o WriteDefinition(1, TRUE, 18,
                            <<Descriptor(253, 4, 134), Descriptor(92, 4, 134)>>)
         \o Flatten([i \in DOMAIN items |-> WriteItem(items[i], withRate)]))

DiveFiles ==
  { DiveFile(items, withRate) : items \in ItemSeqs(MaxRecords), withRate \in BOOLEAN }

\* a file with a 14-byte header: a definition of key 0 as global 20 with
\* the little-endian uint32 fields 253 and 92, then the data records
\* (timestamp 1000, depth 5000) and (timestamp 1001, depth 4000)
ScenarioA ==
  LET body == WriteDefinition(0, TRUE, 20,
                              <<Descriptor(253, 4, 134), Descriptor(92, 4, 134)>>)
                \o WriteRecord(0, <<Encode(1000, 4, TRUE), Encode(5000, 4, TRUE)>>)
                \o WriteRecord(0, <<Encode(1001, 4, TRUE), Encode(4000, 4, TRUE)>>)
  IN Header(14, Len(body), FitTag) \o body \o FileCrc

\* one record message whose uint32 depth holds 0, 1, 5000, 2^31 - 1, 2^31,
\* 2^32 - 2 or the sentinel
DepthFiles ==
  { File(WriteDefinition(0, TRUE, 20,
                         <<Descriptor(253, 4, 134), Descriptor(92, 4, 134)>>)
           \o WriteRecord(0, <<Encode(1000, 4, TRUE), raw>>))
    : raw \in { Encode(0, 4, TRUE), Encode(1, 4, TRUE), Encode(5000, 4, TRUE),
                Encode(2147483647, 4, TRUE), <<0, 0, 0, 128>>,
                <<254, 255, 255, 255>>, SentinelBytes(6, TRUE) } }

Sint8Bytes(v) == IF v = <<>> THEN SentinelBytes(1, TRUE) ELSE Encode(v[1], 1, TRUE)

\* record messages as <<timestamp, depth, temperature>>, <<>> for a
\* sentinel: depths and temperatures present and missing, a temperature
\* below zero, a first timestamp of 0
RecordLists ==
  { << <<<<1000>>, <<5000>>, <<20>>>>, <<<<1003>>, <<4000>>, <<>>>> >>,
    << <<<<1000>>, <<>>, <<>>>> >>,
    << <<<<1000>>, <<5000>>, <<22>>>>, <<<<1001>>, <<8000>>, <<0 - 2>>>>,
       <<<<1002>>, <<>>, <<20>>>> >>,
    << <<<<0>>, <<5000>>, <<20>>>> >> }

\* the raw uint32 values of the session and dive-summary fields: the
\* sentinel, 0, a value, and for the start time 2^31
SummaryRaws(value) == {SentinelBytes(6, TRUE), Encode(0, 4, TRUE), Encode(value, 4, TRUE)}

\* session messages (start time, total elapsed time) and dive-summary
\* messages (average depth, maximum depth) of a file: none or one
SessionLists ==
  {<<>>} \cup { <<<<start, total>>>> :
                 start \in SummaryRaws(2000) \cup {<<0, 0, 0, 128>>},
                 total \in SummaryRaws(3000) }

SummaryLists ==
  {<<>>} \cup { <<<<avg, max>>>> : avg \in SummaryRaws(4500), max \in SummaryRaws(6000) }

\* key 0: record (global 20) with timestamp 253, depth 92 and temperature
\* 13 (sint8); key 1: session (global 18) with start time 2 and total
\* elapsed time 7; key 2: dive summary (global 268) with average depth 2
\* and maximum depth 3; the records, then the session, then the summary
SummaryFile(records, sessions, summaries) ==
  File(WriteDefinition(0, TRUE, 20,
                       <<Descriptor(253, 4, 134), Descriptor(92, 4, 134),
                         Descriptor(13, 1, 1)>>)
         \o WriteDefinition(1, TRUE, 18,
                            <<Descriptor(2, 4, 134), Descriptor(7, 4, 134)>>)
         \o WriteDefinition(2, TRUE, 268,
                            <<Descriptor(2, 4, 134), Descriptor(3, 4, 134)>>)
         \o Flatten([i \in DOMAIN records |->
                       WriteRecord(0, <<Uint32Bytes(records[i][1]),
                                        Uint32Bytes(records[i][2]),
                                        Sint8Bytes(records[i][3])>>)])
         \o Flatten([i \in DOMAIN sessions |-> WriteRecord(1, sessions[i])])
         \o Flatten([i \in DOMAIN summaries |-> WriteRecord(2, summaries[i])]))

SummaryFiles ==
  { SummaryFile(records, sessions, summaries) :
      records \in RecordLists, sessions \in SessionLists, summaries \in SummaryLists }

\* the session and dive-summary rows of a file with two of each
SessionRows ==
  { <<Encode(2000, 4, TRUE), Encode(3000, 4, TRUE)>>,
    <<SentinelBytes(6, TRUE), SentinelBytes(6, TRUE)>>,
    <<Encode(5000, 4, TRUE), Encode(7000, 4, TRUE)>> }

SummaryRows ==
  { <<Encode(4500, 4, TRUE), Encode(6000, 4, TRUE)>>,
    <<SentinelBytes(6, TRUE), SentinelBytes(6, TRUE)>>,
    <<Encode(1500, 4, TRUE), Encode(9000, 4, TRUE)>> }

\* two records, then two session messages, then two dive-summary messages
RepeatFiles ==
  { SummaryFile(<< <<<<1000>>, <<5000>>, <<20>>>>, <<<<1003>>, <<4000>>, <<>>>> >>,
                <<s1, s2>>, <<d1, d2>>)
    : s1 \in SessionRows, s2 \in SessionRows, d1 \in SummaryRows, d2 \in SummaryRows }

\* files of the first call: every stream of two chunks
FirstFiles == { File(b) : b \in Bodies(2) }

\* a definition for each of the keys 0..15, then headers with other bits
\* set: 95 (definition, reserved bit 4, key bits 15), 31 (data, reserved
\* bit 4, key bits 15), 255 (compressed timestamp, bits 5-6 give 3, time
\* offset 31), 159 (compressed timestamp, bits 5-6 give 0, time offset 31),
\* 15 (data, key 15)
KeyFile ==
  File(Flatten([k \in 1..16 |->
                  WriteDefinition(k - 1, TRUE, 20, <<Descriptor(253, 1, 2)>>)])
         \o WriteDefinition(31, TRUE, 20, <<Descriptor(253, 1, 2), Descriptor(13, 1, 1)>>)
         \o WriteRecord(31, <<<<7>>, <<20>>>>)
         \o <<255, 8>>
         \o <<159, 9>>
         \o WriteRecord(15, <<<<10>>, <<21>>>>))

\* one record (global 20) whose definition lists field 253 twice and
\* field 92 twice, with different types and values
DuplicateFiles ==
  { File(WriteDefinition(0, TRUE, 20,
                         <<Descriptor(253, 1, 2), Descriptor(92, 1, 2), Descriptor(13, 1, 1),
                           Descriptor(92, 2, 132), Descriptor(253, 1, 2)>>)
           \o WriteRecord(0, <<<<7>>, <<5>>, <<20>>, second, <<9>>>>))
    : second \in {Encode(4000, 2, TRUE), <<255, 255>>, <<5, 0>>} }

Files ==
  FieldFiles \cup {EndianFile} \cup DiveFiles \cup {ScenarioA}
  \cup DepthFiles \cup SummaryFiles \cup {KeyFile} \cup DuplicateFiles
  \cup RepeatFiles
  \* streams of two chunks, for the records a written file does not hold
  \cup FirstFiles

InitFiles ==
  /\ bytes \in Files
  /\ pc = "start"
  /\ err = "none"
  /\ offset = 0
  /\ endOfData = 0
  /\ definitions = [x \in {} |-> 0]
  /\ messages = <<>>
  /\ scanned = <<>>
  /\ dive = NoDive
  /\ earlier = <<>>
  /\ store = <<>>
  /\ dives = <<>>
  /\ AppIdle /\ ChartsIdle /\ WorkerIdle

SpecFiles == InitFiles /\ [][Next]_vars

-----------------------------------------------------------------------------
(* handleFile: one call of extractDiveFromBuffer per imported file.  The   *)
(* call is synchronous, so the next one starts after it returned or threw. *)

MaxCalls == 2

InitCalls ==
  /\ bytes \in FirstFiles
  /\ pc = "start"
  /\ err = "none"
  /\ offset = 0
  /\ endOfData = 0
  /\ definitions = [x \in {} |-> 0]
  /\ messages = <<>>
  /\ scanned = <<>>
  /\ dive = NoDive
  /\ earlier = <<>>
  /\ store = <<>>
  /\ dives = <<>>
  /\ AppIdle /\ ChartsIdle /\ WorkerIdle

\* files of the later calls: records for keys 0 and 1 with no definition
\* of their own, and a file that defines key 0 before it uses it
LaterFiles ==
  { File(b) : b \in { <<0, 5, 7>>, <<128, 6, 2>>, <<1, 0, 3, 48, 0>>,
                      DefSummary \o <<0, 5, 7>>, DefRecord \o <<1, 0, 3, 48, 0>> } }

\* mutant of handleFile: the definition table outlives the call
handleFileSharedTable ==
  /\ pc \in {"done", "threw"}
  /\ Len(earlier) + 1 < MaxCalls
  /\ earlier' = Append(earlier, [bytes |-> bytes, definitions |-> definitions])
  /\ bytes' \in LaterFiles
  /\ pc' = "start"
  /\ err' = "none"
  /\ offset' = 0
  /\ endOfData' = 0
  /\ messages' = <<>>
  /\ scanned' = <<>>
  /\ dive' = NoDive
  /\ UNCHANGED <<definitions, store, dives, appVars, chartVars, workerVars>>

\* lines 363-380 of the application: extractDiveFromBuffer(buffer) on the
\* next file; parseFIT starts with its own offset, definitions and messages
\* (lines 48, 64, 65)
handleFile ==
  /\ pc \in {"done", "threw"}
  /\ Len(earlier) + 1 < MaxCalls
  /\ earlier' = Append(earlier, [bytes |-> bytes, definitions |-> definitions])
  /\ bytes' \in LaterFiles
  /\ pc' = "start"
  /\ err' = "none"
  /\ offset' = 0
  /\ endOfData' = 0
  /\ definitions' = [x \in {} |-> 0]
  /\ messages' = <<>>
  /\ scanned' = <<>>
  /\ dive' = NoDive
  /\ UNCHANGED <<store, dives, appVars, chartVars, workerVars>>

NextCalls ==
  \/ ParseHeader
  \/ CompressedRecord
  \/ CompressedSkip
  \/ DefinitionRecord
  \/ DataRecord
  \/ DataBreak
  \/ ParseReturn
  \/ Extract
  \/ handleFile

SpecCalls == InitCalls /\ [][NextCalls]_vars

-----------------------------------------------------------------------------
(* saveDive and getAllDives: the dive goes to the object store with its    *)
(* start date as ISO text and comes back with the text parsed.             *)

\* the day since 1970-01-01 and the second of the day of a Date
DayOf(date) ==
  IF date.s = <<>> THEN date.n \div 86400
  ELSE (date.n * 512 + (date.d \div 128)) \div 675

SecondOfDay(date) ==
  IF date.s = <<>> THEN date.n % 86400
  ELSE ((date.n * 512 + (date.d \div 128)) % 675) * 128 + (date.d % 128)

\* year, month and day of day z of the proleptic Gregorian calendar
Civil(z) ==
  LET shifted == z + 719468
      era == shifted \div 146097
      doe == shifted % 146097
      yoe == (doe - (doe \div 1460) + (doe \div 36524) - (doe \div 146096)) \div 365
      doy == doe - (365 * yoe + (yoe \div 4) - (yoe \div 100))
      mp == (5 * doy + 2) \div 153
      month == IF mp < 10 THEN mp + 3 ELSE mp - 9
  IN [year |-> yoe + era * 400 + (IF month <= 2 THEN 1 ELSE 0),
      month |-> month,
      day |-> doy - ((153 * mp + 2) \div 5) + 1]

\* the day since 1970-01-01 of a civil date
DaysFromCivil(year, month, day) ==
  LET y == IF month <= 2 THEN year - 1 ELSE year
      era == y \div 400
      yoe == y % 400
      mp == IF month > 2 THEN month - 3 ELSE month + 9
      doy == ((153 * mp + 2) \div 5) + day - 1
      doe == yoe * 365 + (yoe \div 4) - (yoe \div 100) + doy
  IN era * 146097 + doe - 719468

\* v as n decimal digits (char codes)
Digits(v, n) == [i \in 1..n |-> 48 + ((v \div (10 ^ (n - i))) % 10)]

\* date.toISOString(): YYYY-MM-DDTHH:mm:ss.000Z
toISOString(date) ==
  LET civil == Civil(DayOf(date))
      second == SecondOfDay(date)
  IN Str(Digits(civil.year, 4) \o <<45>> \o Digits(civil.month, 2) \o <<45>>
           \o Digits(civil.day, 2) \o <<84>> \o Digits(second \div 3600, 2) \o <<58>>
           \o Digits((second % 3600) \div 60, 2) \o <<58>> \o Digits(second % 60, 2)
           \o <<46, 48, 48, 48, 90>>)

\* new Date(text) for a text of that format; seconds of 2^31 or more are
\* kept as two halves, as DateOfBig keeps them
NewDate(text) ==
  LET chars == text.s
      day == DaysFromCivil(NumberAt(chars, 1, 4), NumberAt(chars, 6, 7),
                           NumberAt(chars, 9, 10))
      second == 3600 * NumberAt(chars, 12, 13) + 60 * NumberAt(chars, 15, 16)
                  + NumberAt(chars, 18, 19)
      rest == day * 20864 + second
  IN IF day < 24855 \/ (day = 24855 /\ second <= 11647)
     THEN Date(day * 86400 + second)
     ELSE [k |-> "date", n |-> day + (rest \div 65536), d |-> rest % 65536,
           s |-> <<65536>>]

\* { ...dive, startDate: dive.startDate?.toISOString() } under the key id
\* that the store gives it
ToSave(d, id) ==
  [id |-> id,
   startDate |-> IF NotNullish(d.startDate) THEN toISOString(d.startDate) ELSE Undef,
   totalTime |-> d.totalTime, maxDepth |-> d.maxDepth, avgDepth |-> d.avgDepth,
   minTemp |-> d.minTemp, maxTemp |-> d.maxTemp, samples |-> d.samples]

\* mutant of Rehydrate: the text is kept as it is
RehydrateText(d) == d

\* { ...d, startDate: d.startDate ? new Date(d.startDate) : null }
Rehydrate(d) ==
  [d EXCEPT !.startDate = IF Truthy(d.startDate) THEN NewDate(d.startDate) ELSE Null]

\* saveDive(dive) after the extraction: lines 238-249, called at line 372;
\* toISOString throws a RangeError on an invalid date and nothing is stored
saveDive ==
  /\ pc = "done"
  /\ IF dive.startDate = InvalidDate
     THEN /\ pc' = "threw"
          /\ err' = "RangeError"
          /\ UNCHANGED store
     ELSE /\ store' = Append(store, ToSave(dive, Len(store) + 1))
          /\ pc' = "saved"
          /\ UNCHANGED err
  /\ UNCHANGED <<appVars, chartVars, workerVars, dives, earlier, bytes, offset, endOfData, definitions, messages,
                 scanned, dive>>

\* dives = await getAllDives(): lines 251-266, called at line 413
getAllDives ==
  /\ pc = "saved"
  /\ dives' = [i \in DOMAIN store |-> Rehydrate(store[i])]
  /\ pc' = "loaded"
  /\ UNCHANGED <<appVars, chartVars, workerVars, store, earlier, bytes, err, offset, endOfData, definitions, messages,
                 scanned, dive>>

NextStore ==
  \/ ParseHeader
  \/ CompressedRecord
  \/ CompressedSkip
  \/ DefinitionRecord
  \/ DataRecord
  \/ DataBreak
  \/ ParseReturn
  \/ Extract
  \/ saveDive
  \/ getAllDives

\* a record, then a session whose start time (field 2) is a string of one
\* character: the letter a or the digit 1
TextStartFiles ==
  { File(WriteDefinition(0, TRUE, 20,
                         <<Descriptor(253, 4, 134), Descriptor(92, 4, 134)>>)
           \o WriteDefinition(1, TRUE, 18, <<Descriptor(2, 1, 7)>>)
           \o WriteRecord(0, <<Encode(1000, 4, TRUE), Encode(5000, 4, TRUE)>>)
           \o WriteRecord(1, <<<<c>>>>))
    : c \in {97, 49} }

StoreFiles == SummaryFiles \cup TextStartFiles \cup FirstFiles

InitStore ==
  /\ bytes \in StoreFiles
  /\ pc = "start"
  /\ err = "none"
  /\ offset = 0
  /\ endOfData = 0
  /\ definitions = [x \in {} |-> 0]
  /\ messages = <<>>
  /\ scanned = <<>>
  /\ dive = NoDive
  /\ earlier = <<>>
  /\ store = <<>>
  /\ dives = <<>>
  /\ AppIdle /\ ChartsIdle /\ WorkerIdle

SpecStore == InitStore /\ [][NextStore]_vars

-----------------------------------------------------------------------------
(* The buttons of the application: a dive of the list, back, delete.  The  *)
(* delete handler waits for the database; the other handlers can run in    *)
(* between.  The dives are taken as loaded by init().                       *)

MaxDives == 2
MaxPending == 2

\* no file is being read
ParserIdle ==
  /\ bytes = <<>>
  /\ pc = "idle"
  /\ err = "none"
  /\ offset = 0
  /\ endOfData = 0
  /\ definitions = [x \in {} |-> 0]
  /\ messages = <<>>
  /\ scanned = <<>>
  /\ dive = NoDive
  /\ earlier = <<>>

\* a stored dive, by its key
StoredDive(id) == [id |-> id]

\* destroyCharts(): lines 537-550 of charts.js
destroyCharts ==
  /\ longPressTimer' = <<>>
  /\ longPressActive' = FALSE
  /\ cursor1Idx' = Null
  /\ cursor2Idx' = Null
  /\ UNCHANGED touches

\* showList(): lines 293-301
showList ==
  /\ view' = "list"
  /\ destroyCharts
  /\ currentDive' = Null

\* showDetail(dive): lines 303-311; renderCharts starts with destroyCharts
showDetail(d) ==
  /\ currentDive' = d
  /\ view' = "detail"
  /\ destroyCharts

\* click on a dive of the list: line 339
diveItemClick ==
  /\ view = "list"
  /\ \E i \in DOMAIN dives : showDetail(dives[i])
  /\ UNCHANGED <<workerVars, store, dives, pending, earlier, bytes, pc, err, offset,
                 endOfData, definitions, messages, scanned, dive>>

\* click on the back button, which the list view hides: line 313
btnBackClick ==
  /\ view = "detail"
  /\ showList
  /\ UNCHANGED <<workerVars, store, dives, pending, earlier, bytes, pc, err, offset,
                 endOfData, definitions, messages, scanned, dive>>

\* click on the delete button, confirmed, up to await deleteDive(id):
\* lines 403-406; without a current dive, or unconfirmed, nothing changes
btnDeleteClick ==
  /\ currentDive # Null
  /\ Len(pending) < MaxPending
  /\ pending' = Append(pending, [id |-> currentDive.id, state |-> "requested",
                                  view |-> view])
  /\ UNCHANGED <<chartVars, workerVars, store, dives, currentDive, view, earlier, bytes,
                 pc, err, offset, endOfData, definitions, messages, scanned, dive>>

\* the transaction of deleteDive completes (lines 268-276) and the handler
\* goes on: lines 407-408.  d.id !== currentDive.id raises a TypeError for
\* the first dive of the list when currentDive is null
deleteDone ==
  \E i \in DOMAIN pending :
    /\ pending[i].state = "requested"
    /\ store' = SelectSeq(store, LAMBDA d : d.id # pending[i].id)
    /\ IF dives # <<>> /\ currentDive = Null
       THEN /\ err' = "TypeError"
            /\ pending' = [pending EXCEPT ![i] = [id |-> pending[i].id,
                                                   state |-> "failed", view |-> view]]
            /\ UNCHANGED <<dives, currentDive, view, chartVars>>
       ELSE /\ dives' = IF dives = <<>> THEN <<>>
                        ELSE SelectSeq(dives, LAMBDA d : d.id # currentDive.id)
            /\ showList
            /\ pending' = [pending EXCEPT ![i] = [id |-> pending[i].id,
                                                   state |-> "finished", view |-> "list"]]
            /\ UNCHANGED err
    /\ UNCHANGED <<workerVars, earlier, bytes, pc, offset, endOfData, definitions,
                   messages, scanned, dive>>

NextDelete ==
  \/ diveItemClick
  \/ btnBackClick
  \/ btnDeleteClick
  \/ deleteDone

\* after init(): the list holds the stored dives
InitDelete ==
  /\ ParserIdle
  /\ \E n \in 1..MaxDives : store = [i \in 1..n |-> StoredDive(i)]
  /\ dives = store
  /\ AppIdle /\ ChartsIdle /\ WorkerIdle

SpecDelete == InitDelete /\ [][NextDelete]_vars

-----------------------------------------------------------------------------
(* The cursors of the charts: mouse clicks, long press and touch moves on   *)
(* a canvas of the detail view (src/js/charts.js).                          *)

MaxIndex == 1
MaxTouches == 2

\* what getGlobalIndexFromX gives: a sample index, or null outside the
\* chart area (lines 100-111)
Indexes == {Num(i) : i \in 0..MaxIndex} \cup {Null}

\* cancelLongPress(): lines 432-434
cancelLongPress == longPressTimer' = <<>>

\* placeCursor(idx, dive): lines 436-447
placeCursor(idx) ==
  IF cursor1Idx = Null \/ (cursor1Idx # Null /\ cursor2Idx # Null)
  THEN /\ cursor1Idx' = idx
       /\ cursor2Idx' = Null
  ELSE /\ cursor2Idx' = idx
       /\ UNCHANGED cursor1Idx

UnchangedByCharts ==
  UNCHANGED <<appVars, workerVars, store, dives, earlier, bytes, pc, err, offset,
              endOfData, definitions, messages, scanned, dive>>

\* click on a canvas: lines 321-324
canvasClick ==
  /\ view = "detail"
  /\ \E idx \in Indexes \ {Null} : placeCursor(idx)
  /\ UNCHANGED <<longPressActive, longPressTimer, touches>>
  /\ UnchangedByCharts

\* clearCursors(), on a double click or a click on the cursor panel:
\* lines 326, 411 and 449-459
clearCursors ==
  /\ view = "detail"
  /\ cursor1Idx' = Null
  /\ cursor2Idx' = Null
  /\ longPressActive' = FALSE
  /\ UNCHANGED <<longPressTimer, touches>>
  /\ UnchangedByCharts

\* touchstart: lines 334-362, up to setTimeout
touchstart ==
  /\ view = "detail"
  /\ Len(touches) < MaxTouches
  /\ \E at \in Indexes :
       /\ touches' = Append(touches, at)
       /\ IF Len(touches') # 1
          THEN cancelLongPress
          ELSE longPressTimer' = <<[at |-> at, ran |-> FALSE]>>
  /\ UNCHANGED <<cursor1Idx, cursor2Idx, longPressActive>>
  /\ UnchangedByCharts

\* the callback of the long-press timer: lines 344-360
longPress ==
  /\ longPressTimer # <<>>
  /\ ~longPressTimer[1].ran
  /\ longPressTimer' = <<[longPressTimer[1] EXCEPT !.ran = TRUE]>>
  /\ longPressActive' = TRUE
  /\ LET idx == longPressTimer[1].at
     IN IF idx # Null /\ cursor1Idx # Null /\ cursor2Idx # Null
        THEN cursor1Idx' = idx /\ cursor2Idx' = Null
        ELSE IF idx # Null /\ cursor1Idx = Null
        THEN cursor1Idx' = idx /\ UNCHANGED cursor2Idx
        ELSE UNCHANGED <<cursor1Idx, cursor2Idx>>
  /\ UNCHANGED touches
  /\ UnchangedByCharts

\* touchmove: lines 363-394; the fingers are where moved says, far is
\* whether the one finger has moved by more than 10 pixels
touchmove ==
  /\ view = "detail"
  /\ touches # <<>>
  /\ \E moved \in [DOMAIN touches -> Indexes], far \in BOOLEAN :
       /\ touches' = moved
       /\ IF ~longPressActive
          THEN /\ IF Len(moved) = 1 /\ far
                  THEN cancelLongPress
                  ELSE UNCHANGED longPressTimer
               /\ UNCHANGED <<cursor1Idx, cursor2Idx>>
          ELSE /\ UNCHANGED longPressTimer
               /\ IF Len(moved) = 1
                  THEN IF moved[1] # Null
                       THEN cursor1Idx' = moved[1] /\ cursor2Idx' = Null
                       ELSE UNCHANGED <<cursor1Idx, cursor2Idx>>
                  ELSE IF Len(moved) = 2
                  THEN /\ cursor1Idx' = IF moved[1] # Null THEN moved[1] ELSE cursor1Idx
                       /\ cursor2Idx' = IF moved[2] # Null THEN moved[2] ELSE cursor2Idx
                  ELSE UNCHANGED <<cursor1Idx, cursor2Idx>>
  /\ UNCHANGED longPressActive
  /\ UnchangedByCharts

\* touchend, one finger lifted: lines 396-402
touchend ==
  /\ view = "detail"
  /\ \E i \in DOMAIN touches :
       touches' = SubSeq(touches, 1, i - 1) \o SubSeq(touches, i + 1, Len(touches))
  /\ cancelLongPress
  /\ longPressActive' = IF longPressActive /\ Len(touches) = 1 THEN FALSE
                         ELSE longPressActive
  /\ UNCHANGED <<cursor1Idx, cursor2Idx>>
  /\ UnchangedByCharts

\* touchcancel: lines 404-407
touchcancel ==
  /\ view = "detail"
  /\ touches # <<>>
  /\ touches' = <<>>
  /\ cancelLongPress
  /\ longPressActive' = FALSE
  /\ UNCHANGED <<cursor1Idx, cursor2Idx>>
  /\ UnchangedByCharts

\* the events of the charts, and the two buttons that destroy and render
\* them
NextCursors ==
  \/ canvasClick
  \/ clearCursors
  \/ touchstart
  \/ longPress
  \/ touchmove
  \/ touchend
  \/ touchcancel
  \/ btnBackClick
  \/ diveItemClick

\* a dive is shown: renderCharts has run
InitCursors ==
  /\ ParserIdle
  /\ store = <<StoredDive(1)>>
  /\ dives = store
  /\ currentDive = StoredDive(1)
  /\ view = "detail"
  /\ pending = <<>>
  /\ ChartsIdle /\ WorkerIdle

SpecCursors == InitCursors /\ [][NextCursors]_vars

-----------------------------------------------------------------------------
(* The service worker (src/sw.js): install, activate and fetch.            *)

CACHE_NAME == "garmin-dive-v11"

\* two of the assets of lines 2-11
ASSETS == {"./index.html", "./js/app.js"}

\* caches of earlier versions and of other scripts of the origin
OtherCaches == {"garmin-dive-v10", "other"}

\* the requests: the assets and a request that is no asset
Requests == ASSETS \cup {"./data.fit"}

UnchangedByWorker ==
  UNCHANGED <<appVars, chartVars, store, dives, earlier, bytes, pc, err, offset,
              endOfData, definitions, messages, scanned, dive>>

\* caches.open(name): the cache is created when there is none
Opened(storage, name) ==
  [x \in DOMAIN storage \cup {name} |-> IF x \in DOMAIN storage THEN storage[x] ELSE {}]

\* install: lines 13-18; when a request of addAll fails the cache is left
\* as caches.open gave it and the worker is discarded
install ==
  /\ swState = "none"
  /\ \E ok \in BOOLEAN :
       IF ok
       THEN /\ cacheStorage' = [Opened(cacheStorage, CACHE_NAME) EXCEPT
                                  ![CACHE_NAME] = @ \cup ASSETS]
            /\ swState' = "installed"
       ELSE /\ cacheStorage' = Opened(cacheStorage, CACHE_NAME)
            /\ swState' = "redundant"
  /\ UNCHANGED <<cacheKeys, response>>
  /\ UnchangedByWorker

\* mutant of activate: every key is deleted
activateAll ==
  /\ swState = "installed"
  /\ cacheKeys' = DOMAIN cacheStorage
  /\ swState' = "activating"
  /\ UNCHANGED <<cacheStorage, response>>
  /\ UnchangedByWorker

\* activate, up to the calls of caches.delete: lines 20-24; cacheKeys holds
\* the names that passed the filter
activate ==
  /\ swState = "installed"
  /\ cacheKeys' = {k \in DOMAIN cacheStorage : k # CACHE_NAME}
  /\ swState' = "activating"
  /\ UNCHANGED <<cacheStorage, response>>
  /\ UnchangedByWorker

\* one caches.delete(k) completes, in any order
cacheDeleted ==
  /\ swState = "activating"
  /\ \E k \in cacheKeys \cap DOMAIN cacheStorage :
       cacheStorage' = [x \in DOMAIN cacheStorage \ {k} |-> cacheStorage[x]]
  /\ UNCHANGED <<swState, cacheKeys, response>>
  /\ UnchangedByWorker

\* Promise.all settles and waitUntil with it: the worker is active
activated ==
  /\ swState = "activating"
  /\ cacheKeys \cap DOMAIN cacheStorage = {}
  /\ swState' = "activated"
  /\ UNCHANGED <<cacheStorage, cacheKeys, response>>
  /\ UnchangedByWorker

\* fetch: lines 29-33; caches.match looks in every cache
fetch ==
  /\ swState = "activated"
  /\ \E request \in Requests :
       response' = <<[request |-> request,
                      from |-> IF \E name \in DOMAIN cacheStorage :
                                    request \in cacheStorage[name]
                               THEN "cache" ELSE "network"]>>
  /\ UNCHANGED <<cacheStorage, swState, cacheKeys>>
  /\ UnchangedByWorker

NextWorker ==
  \/ install
  \/ activate
  \/ cacheDeleted
  \/ activated
  \/ fetch

\* any caches before the worker is installed, each with any of the requests
InitWorker ==
  /\ ParserIdle
  /\ store = <<>>
  /\ dives = <<>>
  /\ AppIdle /\ ChartsIdle
  /\ \E names \in SUBSET (OtherCaches \cup {CACHE_NAME}) :
       cacheStorage \in [names -> SUBSET Requests]
  /\ swState = "none"
  /\ cacheKeys = {}
  /\ response = <<>>

SpecWorker == InitWorker /\ [][NextWorker]_vars

-----------------------------------------------------------------------------
(* Termination.  parseFIT and extractDiveFromBuffer are synchronous: once  *)
(* called they run until they return or throw, so a step that is enabled   *)
(* is taken.                                                               *)

\* a definition without fields and three data records of one byte each; a
\* definition whose fields have size 0 and two data records; the same with
\* a data size that goes 3 bytes beyond the buffer; files cut inside a
\* definition, with a data size that goes on
TerminationFiles ==
  { Header(12, Len(b) + 10, FitTag) \o b \o CutDefinition : b \in Bodies(1) }
  \cup
  { File(WriteDefinition(0, TRUE, 20, <<>>) \o <<0, 0, 0>>),
    File(WriteDefinition(0, TRUE, 20, <<Descriptor(1, 0, 2), Descriptor(3, 0, 7)>>)
           \o <<0, 0>>),
    Header(12, 15, FitTag)
      \o WriteDefinition(0, TRUE, 20, <<Descriptor(1, 0, 2), Descriptor(3, 0, 7)>>) }

InitTermination ==
  /\ bytes \in FirstFiles \cup TerminationFiles
  /\ pc = "start"
  /\ err = "none"
  /\ offset = 0
  /\ endOfData = 0
  /\ definitions = [x \in {} |-> 0]
  /\ messages = <<>>
  /\ scanned = <<>>
  /\ dive = NoDive
  /\ earlier = <<>>
  /\ store = <<>>
  /\ dives = <<>>
  /\ AppIdle /\ ChartsIdle /\ WorkerIdle

SpecTermination == InitTermination /\ [][Next]_vars /\ WF_vars(Next)

-----------------------------------------------------------------------------
(* Properties *)

NoRecordsError == "No dive records found in FIT file"

\* the tag bytes of the input, read off the buffer
TagIsFit == Len(bytes) >= 12 /\ SubSeq(bytes, 9, 12) = <<46, 70, 73, 84>>

\* a scanned record that had a definition to be decoded with
Decodable(e) == e.kind \in {"data", "compressed"} /\ e.def # <<>>
NoDefinition(e, kind) == e.kind = kind /\ e.def = <<>>

DecodedEntries == SelectSeq(scanned, Decodable)

\* the messages the scanned records stand for, decoded again from the buffer
ExpectedMessages ==
  [m \in DOMAIN DecodedEntries |->
     readDataMessage(DecodedEntries[m].def[1], DecodedEntries[m].at + 1).msg]

\* the record loop is over without an exception of parseFIT
ParseReturned == pc \in {"parsed", "done"} \/ (pc = "threw" /\ err = NoRecordsError)

\* the byte at the cursor is the header of a data record that has a definition
DecodableDataAt(off) ==
  /\ ByteAt(off) # Undefined
  /\ ~Bit(ByteAt(off), 128)
  /\ ~Bit(ByteAt(off), 64)
  /\ Bits(ByteAt(off), 1, 16) \in DOMAIN definitions

\* C1: a buffer whose bytes 8-11 are not ".FIT" makes parseFIT raise an
\* error before any record header is read; no message is decoded or returned.
C1_BadTagRaises ==
  ~TagIsFit =>
    /\ pc \in {"start", "threw"}
    /\ pc = "threw" => err \in {"Not a valid FIT file", "RangeError"}
    /\ scanned = <<>>
    /\ messages = <<>>
    /\ offset = 0
    /\ dive = NoDive

C1_Witness ==
  /\ ~TagIsFit
  /\ Len(bytes) > 14
  /\ pc = "threw"
  /\ err = "Not a valid FIT file"

\* C2: a data record whose key has no stored definition ends the scan: it
\* is the last record scanned, parseFIT raises nothing, and the messages
\* returned are exactly those decoded before it.
C2_UndefinedDataStops ==
  \A i \in DOMAIN scanned :
    NoDefinition(scanned[i], "data") =>
      /\ i = Len(scanned)
      /\ ParseReturned
      /\ messages = ExpectedMessages
      /\ Len(messages) = Cardinality({j \in 1..(i - 1) : Decodable(scanned[j])})

C2_Witness ==
  /\ pc = "done"
  /\ NoDefinition(scanned[Len(scanned)], "data")
  /\ Len(messages) >= 1
  /\ Lt(offset, endOfData)
  /\ DecodableDataAt(offset)

\* C3: a compressed-timestamp record whose key has no stored definition is
\* skipped: only its header byte is consumed, no message is produced, and
\* the next byte is scanned as a record header.
C3_UndefinedCompressedSkipped ==
  \A i \in DOMAIN scanned :
    NoDefinition(scanned[i], "compressed") =>
      /\ scanned[i].end = scanned[i].at + 1
      /\ Len(messages) = Len(DecodedEntries)
      /\ i < Len(scanned) => scanned[i + 1].at = scanned[i].at + 1
      /\ i = Len(scanned) =>
           /\ offset = scanned[i].at + 1
           /\ pc = "loop" \/ ~Lt(offset, endOfData) \/ err = "RangeError"

C3_Witness ==
  \E i \in DOMAIN scanned :
    /\ NoDefinition(scanned[i], "compressed")
    /\ i < Len(scanned)
    /\ Decodable(scanned[i + 1])
    /\ scanned[i + 1].at = scanned[i].at + 1
    /\ Len(messages) = Len(DecodedEntries)
    /\ Len(messages) >= 1

\* C4 as stated: an undefined key stops the scan for a data record and for
\* a compressed-timestamp record alike; no record after either is decoded.
C4_UndefinedKeyStops ==
  \A i \in DOMAIN scanned :
    (NoDefinition(scanned[i], "data") \/ NoDefinition(scanned[i], "compressed")) =>
      \A j \in (i + 1)..Len(scanned) : ~Decodable(scanned[j])

\* C4, amended: an undefined key stops the scan only for a data record,
\* and all messages decoded so far are returned; after a compressed-
\* timestamp record with an undefined key the scan goes on, and only the end
\* of the data, an undefined data record or an exception ends it.
C4_OnlyDataStops ==
  \A i \in DOMAIN scanned :
    /\ NoDefinition(scanned[i], "data") =>
         /\ \A j \in DOMAIN scanned : j <= i
         /\ ParseReturned
         /\ messages = ExpectedMessages
    /\ NoDefinition(scanned[i], "compressed") =>
         \/ pc = "loop"
         \/ i < Len(scanned)
         \/ ~Lt(offset, endOfData)
         \/ err = "RangeError"

C4_Witness ==
  /\ pc = "done"
  /\ NoDefinition(scanned[Len(scanned)], "data")
  /\ \E i \in DOMAIN scanned : \E j \in DOMAIN scanned :
       /\ i < j
       /\ NoDefinition(scanned[i], "compressed")
       /\ Decodable(scanned[j])
  /\ messages = ExpectedMessages

HasType(msgs, num) == \E m \in DOMAIN msgs : msgs[m].mesgNum = num

\* the record loop was left by its condition or by break
LoopLeft ==
  \/ ~Lt(offset, endOfData)
  \/ scanned # <<>> /\ NoDefinition(scanned[Len(scanned)], "data")

\* C5: the no-records error is raised exactly when the decoded messages
\* hold no message of type 20, by the extraction, after parseFIT returned
\* normally, whether or not session or dive-summary messages were decoded.
C5_NoRecordsError ==
  /\ err = NoRecordsError =>
       /\ pc = "threw"
       /\ ~HasType(messages, 20)
       /\ LoopLeft
       /\ dive = NoDive
  /\ pc = "done" => HasType(messages, 20) /\ err = "none" /\ dive # NoDive
  /\ pc = "threw" => err # "none"
  /\ pc \in {"start", "loop", "parsed"} => err = "none" /\ dive = NoDive

C5_Witness ==
  /\ err = NoRecordsError
  /\ HasType(messages, 18)
  /\ HasType(messages, 268)

\* the index in messages of the message of scanned record i
MsgIndex(i) == Cardinality({x \in 1..i : Decodable(scanned[x])})

IsDefinitionFor(e, key) == e.kind = "definition" /\ e.key = key

\* C6: a data or compressed-timestamp record with key k is decoded with the
\* definition of the latest definition record for k before it: its global
\* message number, endianness, fields and developer fields.
C6_LatestDefinitionUsed ==
  \A i \in DOMAIN scanned :
    Decodable(scanned[i]) =>
      \E j \in 1..(i - 1) :
        /\ IsDefinitionFor(scanned[j], scanned[i].key)
        /\ \A x \in (j + 1)..(i - 1) : ~IsDefinitionFor(scanned[x], scanned[i].key)
        /\ scanned[i].def = scanned[j].def
        /\ messages[MsgIndex(i)] =
             readDataMessage(scanned[j].def[1], scanned[i].at + 1).msg
        /\ messages[MsgIndex(i)].mesgNum = scanned[j].def[1].globalMesgNum

\* record i, of the given kind, was decoded after key k was redefined
DecodedAfterRedefinition(i, kind) ==
  /\ Decodable(scanned[i])
  /\ scanned[i].kind = kind
  /\ \E j1 \in 1..(i - 1) : \E j2 \in 1..(i - 1) :
       /\ j1 < j2
       /\ IsDefinitionFor(scanned[j1], scanned[i].key)
       /\ IsDefinitionFor(scanned[j2], scanned[i].key)
       /\ scanned[j1].def # scanned[j2].def
       /\ scanned[j1].def[1].globalMesgNum # scanned[j2].def[1].globalMesgNum

C6_Witness ==
  /\ ParseReturned
  /\ \E i \in DOMAIN scanned : DecodedAfterRedefinition(i, "data")
  /\ \E i \in DOMAIN scanned : DecodedAfterRedefinition(i, "compressed")

\* C7: the messages are as many as the data and compressed-timestamp
\* records scanned with a stored definition, one per record and tagged with
\* the global message number of its definition; definition records and
\* records with no definition add none.
C7_OneMessagePerDecodedRecord ==
  /\ Len(messages) =
       Cardinality({i \in DOMAIN scanned :
                      /\ scanned[i].kind \in {"data", "compressed"}
                      /\ scanned[i].def # <<>>})
  /\ \A i \in DOMAIN scanned :
       Decodable(scanned[i]) =>
         messages[MsgIndex(i)].mesgNum = scanned[i].def[1].globalMesgNum

C7_Witness ==
  /\ pc = "parsed"
  /\ Len(messages) = 2
  /\ Len(scanned) = 5
  /\ \E i \in DOMAIN scanned : Decodable(scanned[i]) /\ scanned[i].kind = "data"
  /\ \E i \in DOMAIN scanned : Decodable(scanned[i]) /\ scanned[i].kind = "compressed"
  /\ \E i \in DOMAIN scanned : NoDefinition(scanned[i], "compressed")
  /\ \E i \in DOMAIN scanned : scanned[i].kind = "definition"

\* C8: the messages are in the order of the offsets of their records, and
\* the samples are in the order of the type-20 messages: sample i carries
\* the temperature and the timestamp offset of the i-th such message.
C8_SourceOrder ==
  /\ messages = ExpectedMessages
  /\ \A m \in 1..(Len(DecodedEntries) - 1) :
       DecodedEntries[m].at < DecodedEntries[m + 1].at
  /\ pc = "done" =>
       LET records == SelectSeq(messages, LAMBDA m : m.mesgNum = 20)
       IN /\ Len(dive.samples) = Len(records)
          /\ \A i \in DOMAIN records :
               /\ dive.samples[i].temperature = Get(records[i], 13)
               /\ dive.samples[i].elapsed =
                    Minus(Get(records[i], 253), Get(records[1], 253))

C8_Witness ==
  /\ pc = "done"
  /\ Len(dive.samples) >= 2
  /\ dive.samples[1].temperature # dive.samples[2].temperature
  /\ dive.samples[1].elapsed # dive.samples[2].elapsed
  /\ \E m \in DOMAIN messages : messages[m].mesgNum # 20

\* the cursor after the first n descriptors of seq, from cursor off
RECURSIVE OffsetAfter(_, _, _)
OffsetAfter(off, seq, n) ==
  IF n = 0 THEN off ELSE AddOffset(OffsetAfter(off, seq, n - 1), seq[n].size)

FieldOffset(e, j) == OffsetAfter(e.at + 1, e.def[1].fields, j - 1)

EndOffset(e) ==
  OffsetAfter(OffsetAfter(e.at + 1, e.def[1].fields, Len(e.def[1].fields)),
              e.def[1].devFields, Len(e.def[1].devFields))

FieldNumbers(def) == {def.fields[j].fieldDefNum : j \in DOMAIN def.fields}

\* C9: the cursor after a decoded record is the offset of its header byte
\* plus 1 plus the declared sizes of the fields and of the developer fields
\* of its definition (NaN when a size is undefined), whatever the base
\* types and values; the next record is scanned there, and the message
\* holds the definition's fields only, no developer field.
C9_CursorAdvancesByDeclaredSizes ==
  \A i \in DOMAIN scanned :
    Decodable(scanned[i]) =>
      /\ scanned[i].end = EndOffset(scanned[i])
      /\ i < Len(scanned) => scanned[i + 1].at = EndOffset(scanned[i])
      /\ i = Len(scanned) => offset = EndOffset(scanned[i])
      /\ DOMAIN messages[MsgIndex(i)].fields = FieldNumbers(scanned[i].def[1])

\* a decoded record whose definition has developer fields, with a number
\* that no field has, and a field whose size is not that of its base type
C9_Witness ==
  \E i \in DOMAIN scanned :
    /\ Decodable(scanned[i])
    /\ i < Len(scanned)
    /\ Decodable(scanned[i + 1])
    /\ \E x \in DOMAIN scanned[i].def[1].devFields :
         /\ scanned[i].def[1].devFields[x].size > 0
         /\ scanned[i].def[1].devFields[x].fNum \notin FieldNumbers(scanned[i].def[1])
    /\ \E j \in DOMAIN scanned[i].def[1].fields :
         /\ Bits(scanned[i].def[1].fields[j].baseType, 1, 32) = 6
         /\ scanned[i].def[1].fields[j].size = 0
    /\ scanned[i].end = scanned[i].at + 5

UnknownType(field) ==
  field.baseType # Undefined /\ Bits(field.baseType, 1, 32) \notin 0..13

\* descriptor j is the last one of the definition with its field number
LastOfNumber(def, j) ==
  \A x \in (j + 1)..Len(def.fields) :
    def.fields[x].fieldDefNum # def.fields[j].fieldDefNum

\* an exception left the record loop at the record under the cursor
ThrewAtRecord == pc = "threw" /\ err = "RangeError" /\ Lt(offset, endOfData)

\* the key the record under the cursor looks up (no definition record)
LookedUpKey ==
  IF Bit(recordHeader, 128) THEN Bits(recordHeader, 32, 4) ELSE Bits(recordHeader, 1, 16)

\* C10: a field of unknown base type (low 5 bits not in 0..13) decodes to
\* null, the cursor passes it by its declared size, so the fields after it
\* are read at their offsets and the next record is scanned at the record's
\* end; decoding raises only for a field read through the DataView.
C10_UnknownBaseType ==
  /\ \A i \in DOMAIN scanned :
       Decodable(scanned[i]) =>
         LET e == scanned[i]
             def == e.def[1]
             msg == messages[MsgIndex(i)]
         IN \A j \in DOMAIN def.fields :
              UnknownType(def.fields[j]) =>
                /\ LastOfNumber(def, j) => msg.fields[def.fields[j].fieldDefNum] = Null
                /\ \A x \in (j + 1)..Len(def.fields) :
                     LastOfNumber(def, x) =>
                       msg.fields[def.fields[x].fieldDefNum] =
                         FieldValue(Bits(def.fields[x].baseType, 1, 32),
                                    FieldOffset(e, x), def.fields[x].size,
                                    def.littleEndian)
                /\ e.end = EndOffset(e)
                /\ i < Len(scanned) => scanned[i + 1].at = EndOffset(e)
  /\ (ThrewAtRecord /\ ~(~Bit(recordHeader, 128) /\ Bit(recordHeader, 64))) =>
       /\ LookedUpKey \in DOMAIN definitions
       /\ \E j \in DOMAIN definitions[LookedUpKey].fields :
            Bits(definitions[LookedUpKey].fields[j].baseType, 1, 32)
              \in {1, 3, 4, 5, 6, 8, 9, 11, 12}

C10_Witness ==
  \E i \in DOMAIN scanned :
    /\ Decodable(scanned[i])
    /\ i < Len(scanned)
    /\ Decodable(scanned[i + 1])
    /\ \E j \in DOMAIN scanned[i].def[1].fields :
         /\ UnknownType(scanned[i].def[1].fields[j])
         /\ scanned[i].def[1].fields[j].size = 1
         /\ j < Len(scanned[i].def[1].fields)
         /\ messages[MsgIndex(i)].fields[scanned[i].def[1].fields[j].fieldDefNum] = Null
         /\ messages[MsgIndex(i)].fields[scanned[i].def[1].fields[j + 1].fieldDefNum]
              = Num(ByteAt(scanned[i].at + 2))

\* the n raw bytes at offset off
RawBytes(off, n) == [x \in 1..n |-> ByteAt(off + x - 1)]

\* descriptor j of def has an integer base type
IntegerType(def, j) ==
  /\ def.fields[j].baseType # Undefined
  /\ Bits(def.fields[j].baseType, 1, 32) \in IntegerBaseTypes

\* C11: a field of an integer base type whose raw bytes are the sentinel of
\* that type, in the byte order of the definition, decodes to null,
\* wherever the field stands among the fields of the definition.
C11_SentinelIsNull ==
  \A i \in DOMAIN scanned :
    Decodable(scanned[i]) =>
      LET e == scanned[i]
          def == e.def[1]
          msg == messages[MsgIndex(i)]
      IN \A j \in DOMAIN def.fields :
           LET bt == Bits(def.fields[j].baseType, 1, 32)
           IN (/\ IntegerType(def, j)
               /\ LastOfNumber(def, j)
               /\ RawBytes(FieldOffset(e, j), TypeWidth(bt))
                    = SentinelBytes(bt, def.littleEndian))
                => msg.fields[def.fields[j].fieldDefNum] = Null

\* a big-endian sint32 field with the bytes 7F FF FF FF, between two other
\* fields that hold values, decoded to null
C11_Witness ==
  \E i \in DOMAIN scanned :
    /\ Decodable(scanned[i])
    /\ ~scanned[i].def[1].littleEndian
    /\ Len(scanned[i].def[1].fields) = 3
    /\ Bits(scanned[i].def[1].fields[2].baseType, 1, 32) = 5
    /\ RawBytes(FieldOffset(scanned[i], 2), 4) = <<127, 255, 255, 255>>
    /\ messages[MsgIndex(i)].fields[92] = Null
    /\ messages[MsgIndex(i)].fields[253] = Num(7)
    /\ messages[MsgIndex(i)].fields[13] = Num(20)

\* the value of the four bytes b, least significant first
Uint32Of(b) ==
  IF b[4] >= 128 THEN Big(256 * b[4] + b[3], 256 * b[2] + b[1])
  ELSE Num(b[1] + 256 * b[2] + 65536 * b[3] + 16777216 * b[4])

\* C12: a uint32 field with raw bytes b0 b1 b2 b3 (not the sentinel) holds
\* b0 + 256*b1 + 65536*b2 + 16777216*b3 when the definition of its record is
\* little-endian and the value of the reversed bytes when it is big-endian.
C12_Uint32ByteOrder ==
  \A i \in DOMAIN scanned :
    Decodable(scanned[i]) =>
      LET e == scanned[i]
          def == e.def[1]
          msg == messages[MsgIndex(i)]
      IN \A j \in DOMAIN def.fields :
           LET raw == RawBytes(FieldOffset(e, j), 4)
           IN (/\ def.fields[j].baseType # Undefined
               /\ Bits(def.fields[j].baseType, 1, 32) = 6
               /\ LastOfNumber(def, j)
               /\ raw # <<255, 255, 255, 255>>)
                => msg.fields[def.fields[j].fieldDefNum] =
                     Uint32Of(IF def.littleEndian THEN raw ELSE Reverse(raw))

\* the bytes 01 00 00 00 decoded to 1 under the little-endian definition
\* and to 16777216 under the big-endian one, in the same file
C12_Witness ==
  /\ Len(scanned) = 4
  /\ Decodable(scanned[3])
  /\ Decodable(scanned[4])
  /\ scanned[3].def[1].littleEndian
  /\ ~scanned[4].def[1].littleEndian
  /\ RawBytes(FieldOffset(scanned[3], 1), 4) = <<1, 0, 0, 0>>
  /\ RawBytes(FieldOffset(scanned[4], 1), 4) = <<1, 0, 0, 0>>
  /\ Bits(scanned[3].def[1].fields[1].baseType, 1, 32) = 6
  /\ Bits(scanned[4].def[1].fields[1].baseType, 1, 32) = 6
  /\ messages[1].fields[92] = Num(1)
  /\ messages[2].fields[92] = Num(16777216)

\* the bytes readFieldValue reads for a field of base type bt other than
\* a string: one through bytes[], the getter's width through the DataView,
\* none for an unknown type
ReadWidth(bt) ==
  CASE bt \in {0, 2, 10, 13} -> 1
    [] bt \in 0..13 \ {7} -> GetterWidth(bt)
    [] OTHER -> 0

\* index k holds a byte of the buffer that lies at or after the end of the
\* declared data section
BeyondEnd(k) == k # NaNOffset /\ k >= endOfData /\ k < Len(bytes)

\* C13: the cursor starts at the header size held in byte 0, and no byte at
\* or after header size + data size is read: not as a record header, not as
\* the last byte of a definition record, not as a byte of a field.
C13_NothingReadBeyondEnd ==
  /\ (pc = "loop" /\ scanned = <<>>) => offset = bytes[1]
  /\ scanned # <<>> => scanned[1].at = bytes[1]
  /\ \A i \in DOMAIN scanned :
       LET e == scanned[i]
       IN /\ ~BeyondEnd(e.at)
          /\ e.kind = "definition" => ~BeyondEnd(e.end - 1)
          /\ Decodable(e) =>
               \A j \in DOMAIN e.def[1].fields :
                 LET bt == Bits(e.def[1].fields[j].baseType, 1, 32)
                 IN (e.def[1].fields[j].baseType # Undefined /\ ReadWidth(bt) > 0)
                      => ~BeyondEnd(AddOffset(FieldOffset(e, j), ReadWidth(bt) - 1))

\* the definition record in the scanned records of this call that stored
\* the table's entry for key
StoredBy(i, key) ==
  /\ IsDefinitionFor(scanned[i], key)
  /\ scanned[i].def = <<definitions[key]>>
  /\ \A x \in (i + 1)..Len(scanned) : ~IsDefinitionFor(scanned[x], key)

\* C14: every call of parseFIT starts with an empty definition table, no
\* message and the cursor at 0, whatever was decoded before it, so each
\* entry of its table was stored by a definition record of its own buffer,
\* each record is decoded with a definition its own buffer gave, and the
\* messages are those of the buffer's records alone.
C14_TableLocalToCall ==
  /\ pc = "start" =>
       /\ definitions = [x \in {} |-> 0]
       /\ messages = <<>>
       /\ offset = 0
       /\ scanned = <<>>
  /\ \A key \in DOMAIN definitions : \E i \in DOMAIN scanned : StoredBy(i, key)
  /\ \A i \in DOMAIN scanned :
       Decodable(scanned[i]) =>
         \E j \in 1..(i - 1) :
           /\ IsDefinitionFor(scanned[j], scanned[i].key)
           /\ scanned[i].def = scanned[j].def
  /\ messages = ExpectedMessages

\* a second call whose buffer starts with a data record for key 0, after a
\* call that stored a definition for key 0: the record is not decoded
C14_Witness ==
  /\ Len(earlier) = 1
  /\ 0 \in DOMAIN earlier[1].definitions
  /\ bytes = File(<<0, 5, 7>>)
  /\ pc = "threw"
  /\ err = NoRecordsError
  /\ Len(scanned) = 1
  /\ NoDefinition(scanned[1], "data")
  /\ messages = <<>>

\* the messages of global number 20 among the returned ones, and the k-th
RecordCount == Cardinality({i \in DOMAIN messages : messages[i].mesgNum = 20})

RecordAt(k) ==
  messages[CHOOSE i \in DOMAIN messages :
             /\ messages[i].mesgNum = 20
             /\ Cardinality({x \in 1..i : messages[x].mesgNum = 20}) = k]

\* field f of the k-th record message
RawOf(k, f) ==
  IF f \in DOMAIN RecordAt(k).fields THEN RecordAt(k).fields[f] ELSE Undef

IsNumber(v) == v.k = "num"

\* a - b and a / b on numbers, a < b
Diff(a, b) == Rat(a.n * b.d - b.n * a.d, a.d * b.d)
Quot(a, b) == Rat(a.n * b.d, a.d * b.n)
Less(a, b) == IsNumber(a) /\ IsNumber(b) /\ a.n * b.d < b.n * a.d

\* C15: the dive has one sample per message of global number 20, in the
\* order of the messages: sample k holds the k-th such message's timestamp
\* minus the first one's, its depth over 1000 and its other fields; messages
\* of other numbers give no sample and equal records give equal samples.
C15_OneSamplePerRecord ==
  pc = "done" =>
    /\ Len(dive.samples) = RecordCount
    /\ \A k \in 1..RecordCount :
         /\ (IsNumber(RawOf(k, 253)) /\ IsNumber(RawOf(1, 253))) =>
              dive.samples[k].elapsed = Num(RawOf(k, 253).n - RawOf(1, 253).n)
         /\ dive.samples[k].depth =
              (IF IsNumber(RawOf(k, 92)) THEN Rat(RawOf(k, 92).n, 1000)
               ELSE IF RawOf(k, 92).k = "big"
               THEN [k |-> "big", n |-> RawOf(k, 92).n, d |-> RawOf(k, 92).d,
                     s |-> <<1000>>]
               ELSE Null)
         /\ dive.samples[k].temperature = RawOf(k, 13)
         /\ dive.samples[k].ndl = RawOf(k, 96)
         /\ dive.samples[k].cns = RawOf(k, 93)

\* a session message between two equal records: two equal samples
C15_Witness ==
  /\ pc = "done"
  /\ Len(messages) = 3
  /\ messages[1].mesgNum = 20
  /\ messages[2].mesgNum = 18
  /\ messages[3] = messages[1]
  /\ messages[2].fields[92] = Num(8000)
  /\ Len(dive.samples) = 2
  /\ dive.samples[1].depth = Num(10)
  /\ dive.samples[2] = dive.samples[1]

\* the timestamps of the record messages are numbers that never decrease
TimestampsNonDecreasing ==
  /\ \A k \in 1..RecordCount : IsNumber(RawOf(k, 253))
  /\ \A k \in 1..(RecordCount - 1) : RawOf(k, 253).n <= RawOf(k + 1, 253).n

\* C16: when the timestamps of the record messages never decrease, the
\* elapsed times of the samples never decrease.
C16_ElapsedNonDecreasing ==
  (pc = "done" /\ TimestampsNonDecreasing) =>
    \A k \in 1..(Len(dive.samples) - 1) :
      /\ IsNumber(dive.samples[k].elapsed)
      /\ IsNumber(dive.samples[k + 1].elapsed)
      /\ ~Less(dive.samples[k + 1].elapsed, dive.samples[k].elapsed)

\* three records at 1000, 1000 and 1002: elapsed 0, 0, 2
C16_Witness ==
  /\ pc = "done"
  /\ TimestampsNonDecreasing
  /\ Len(dive.samples) = 3
  /\ dive.samples[1].elapsed = Num(0)
  /\ dive.samples[2].elapsed = Num(0)
  /\ dive.samples[3].elapsed = Num(2)

\* record k carries no ascent rate (field 127 missing or the sentinel)
RateAbsent(k) == RawOf(k, 127).k \in {"null", "undefined"}

\* sample k has a sample before it, both have a depth, and its elapsed
\* time is greater than that of the sample before
BackfillCondition(k) ==
  /\ k >= 2
  /\ IsNumber(dive.samples[k].depth)
  /\ IsNumber(dive.samples[k - 1].depth)
  /\ Less(dive.samples[k - 1].elapsed, dive.samples[k].elapsed)

\* (depth[k-1] - depth[k]) / (elapsed[k] - elapsed[k-1])
AdjacentRate(k) ==
  Quot(Diff(dive.samples[k - 1].depth, dive.samples[k].depth),
       Diff(dive.samples[k].elapsed, dive.samples[k - 1].elapsed))

\* C17: a sample k >= 2 whose record has no ascent rate, whose depth and
\* its predecessor's are present and whose elapsed time is greater than the
\* predecessor's gets the rate (depth[k-1] - depth[k]) / (elapsed[k] -
\* elapsed[k-1]).
C17_BackfillFromPredecessor ==
  pc = "done" =>
    \A k \in 1..Len(dive.samples) :
      (RateAbsent(k) /\ BackfillCondition(k)) =>
        dive.samples[k].ascentRate = AdjacentRate(k)

\* depths 10, 8, 10 at 0, 0, 2: the third sample gets (8 - 10) / 2, not
\* the (10 - 10) / 2 of the first sample
C17_Witness ==
  /\ pc = "done"
  /\ Len(dive.samples) = 3
  /\ RateAbsent(3)
  /\ dive.samples[1].depth = Num(10)
  /\ dive.samples[2].depth = Num(8)
  /\ dive.samples[3].depth = Num(10)
  /\ dive.samples[2].elapsed = Num(0)
  /\ dive.samples[3].elapsed = Num(2)
  /\ dive.samples[3].ascentRate = Num(0 - 1)

\* C18: a sample whose record has no ascent rate and that is the first
\* one, or lacks a depth, or follows a sample without depth, or is not
\* later than the sample before, has no ascent rate after the backfill; a
\* rate given to a sample without one comes from the sample right before.
C18_NoBackfillOtherwise ==
  pc = "done" =>
    \A k \in 1..Len(dive.samples) :
      RateAbsent(k) =>
        /\ ~BackfillCondition(k) => dive.samples[k].ascentRate = Null
        /\ dive.samples[k].ascentRate # Null =>
             /\ k >= 2
             /\ dive.samples[k].ascentRate = AdjacentRate(k)

\* no rate for the first sample, for one after a sample without depth, and
\* for one not later than the sample before
C18_Witness ==
  /\ pc = "done"
  /\ Len(dive.samples) = 3
  /\ \A k \in 1..3 : RateAbsent(k) /\ dive.samples[k].ascentRate = Null
  /\ dive.samples[1].depth = Null
  /\ dive.samples[2].depth = Num(8)
  /\ dive.samples[2].elapsed = Num(2)
  /\ dive.samples[3].depth = Num(10)
  /\ dive.samples[3].elapsed = Num(0)

\* C19: when every record message carries an ascent rate (field 127 holds
\* a number, 0 included), every sample's ascent rate is that number over
\* 1000 after the backfill.
C19_ExplicitRateKept ==
  (pc = "done" /\ \A k \in 1..RecordCount : IsNumber(RawOf(k, 127))) =>
    \A k \in 1..Len(dive.samples) :
      dive.samples[k].ascentRate = Rat(RawOf(k, 127).n, 1000)

\* a record with rate 0 that is shallower and later than the record before
\* it keeps the rate 0
C19_Witness ==
  /\ pc = "done"
  /\ Len(dive.samples) = 2
  /\ RawOf(1, 127) = Num(500)
  /\ RawOf(2, 127) = Num(0)
  /\ BackfillCondition(2)
  /\ AdjacentRate(2) = Num(1)
  /\ dive.samples[1].ascentRate = Rat(1, 2)
  /\ dive.samples[2].ascentRate = Num(0)

\* C20: a backfilled rate is positive exactly when the depth is less than
\* that of the sample before, negative exactly when it is greater, and zero
\* when it is the same; depths 10 and 8 at elapsed 0 and 2 give the rate 1.
C20_BackfillSign ==
  pc = "done" =>
    \A k \in 1..Len(dive.samples) :
      (RateAbsent(k) /\ BackfillCondition(k)) =>
        LET rate == dive.samples[k].ascentRate
            before == dive.samples[k - 1]
            this == dive.samples[k]
        IN /\ IsNumber(rate)
           /\ rate.n > 0 <=> Less(this.depth, before.depth)
           /\ rate.n < 0 <=> Less(before.depth, this.depth)
           /\ rate.n = 0 <=> this.depth = before.depth
           /\ (/\ before.depth = Num(10)
               /\ this.depth = Num(8)
               /\ before.elapsed = Num(0)
               /\ this.elapsed = Num(2)) => rate = Num(1)

C20_Witness ==
  /\ pc = "done"
  /\ Len(dive.samples) = 2
  /\ RateAbsent(2)
  /\ dive.samples[1].depth = Num(10)
  /\ dive.samples[2].depth = Num(8)
  /\ dive.samples[1].elapsed = Num(0)
  /\ dive.samples[2].elapsed = Num(2)
  /\ dive.samples[2].ascentRate = Num(1)

\* the sample fields of the dive, one sequence per field
Elapsed == [k \in DOMAIN dive.samples |-> dive.samples[k].elapsed]
Depth == [k \in DOMAIN dive.samples |-> dive.samples[k].depth]
AscentRate == [k \in DOMAIN dive.samples |-> dive.samples[k].ascentRate]

\* C21: the file with a 14-byte header, one definition (key 0, global 20,
\* little-endian uint32 fields 253 and 92) and the data records (1000, 5000)
\* and (1001, 4000) raises no error and gives two samples with elapsed
\* 0 and 1, depth 5 and 4, ascent rate null and 1.
C21_ScenarioA ==
  bytes = ScenarioA =>
    /\ pc # "threw"
    /\ pc \in {"parsed", "done"} => Len(messages) = 2
    /\ pc = "done" =>
         /\ Elapsed = <<Num(0), Num(1)>>
         /\ Depth = <<Num(5), Num(4)>>
         /\ AscentRate = <<Null, Num(1)>>

C21_Witness ==
  /\ bytes = ScenarioA
  /\ bytes[1] = 14
  /\ pc = "done"
  /\ Len(dive.samples) = 2
  /\ dive.samples[2].ascentRate = Num(1)

\* the scanned record that gave the k-th message of global number 20
RecordEntry(k) ==
  scanned[CHOOSE i \in DOMAIN scanned :
            /\ Decodable(scanned[i])
            /\ scanned[i].def[1].globalMesgNum = 20
            /\ Cardinality({x \in 1..i : /\ Decodable(scanned[x])
                                          /\ scanned[x].def[1].globalMesgNum = 20}) = k]

\* descriptor j of the definition of e is the one that gives field num,
\* and its base type is bt
GivesField(e, j, num, bt) ==
  /\ e.def[1].fields[j].fieldDefNum = num
  /\ LastOfNumber(e.def[1], j)
  /\ Bits(e.def[1].fields[j].baseType, 1, 32) = bt

\* v / 1000 for the uint32 value v of four bytes, least significant first
Thousandth(b) ==
  IF b[4] >= 128
  THEN [k |-> "big", n |-> 256 * b[4] + b[3], d |-> 256 * b[2] + b[1], s |-> <<1000>>]
  ELSE Rat(b[1] + 256 * b[2] + 65536 * b[3] + 16777216 * b[4], 1000)

\* C22: a record whose uint32 depth field (92) holds the raw value v gives
\* a sample whose depth is v / 1000, v = 0 included, and null when v is
\* 0xFFFFFFFF.
C22_DepthScale ==
  pc = "done" =>
    \A k \in 1..Len(dive.samples) :
      LET e == RecordEntry(k)
      IN \A j \in DOMAIN e.def[1].fields :
           GivesField(e, j, 92, 6) =>
             LET raw == RawBytes(FieldOffset(e, j), 4)
                 little == IF e.def[1].littleEndian THEN raw ELSE Reverse(raw)
             IN dive.samples[k].depth =
                  (IF raw = <<255, 255, 255, 255>> THEN Null ELSE Thousandth(little))

\* the raw value 0 gave the depth 0
C22_Witness ==
  /\ pc = "done"
  /\ Len(dive.samples) = 1
  /\ Len(RecordEntry(1).def[1].fields) = 2
  /\ GivesField(RecordEntry(1), 2, 92, 6)
  /\ RawBytes(FieldOffset(RecordEntry(1), 2), 4) = <<0, 0, 0, 0>>
  /\ dive.samples[1].depth = Num(0)

\* field f of the first returned message of global number num, undefined
\* when there is no such message or it has no such field
FirstIndex(num) ==
  CHOOSE i \in DOMAIN messages :
    messages[i].mesgNum = num /\ \A x \in 1..(i - 1) : messages[x].mesgNum # num

FieldOfFirst(num, f) ==
  IF \A i \in DOMAIN messages : messages[i].mesgNum # num THEN Undef
  ELSE IF f \in DOMAIN messages[FirstIndex(num)].fields
       THEN messages[FirstIndex(num)].fields[f]
       ELSE Undef

\* a field that holds a value: 0 is one
Present(v) == v.k \notin {"null", "undefined"}

\* v / 1000 for an integer v
Over1000(v) ==
  IF v.k = "big" THEN [k |-> "big", n |-> v.n, d |-> v.d, s |-> <<1000>>]
  ELSE Rat(v.n, 1000)

\* the depths of the samples, 0 for a sample without depth
DepthsOrZero ==
  { IF Present(dive.samples[k].depth) THEN dive.samples[k].depth ELSE Num(0)
    : k \in DOMAIN dive.samples }

IsGreatest(m, values) == m \in values /\ \A x \in values : x = m \/ Less(x, m)
IsLeast(m, values) == m \in values /\ \A x \in values : x = m \/ Less(m, x)

\* C23: maxDepth is field 3 of the first dive-summary message over 1000
\* whenever that field holds a value, 0 included; otherwise it is the
\* greatest depth of the samples, 0 for a sample without depth; it is
\* never null.
C23_MaxDepthFromSummary ==
  pc = "done" =>
    /\ dive.maxDepth # Null
    /\ IF Present(FieldOfFirst(268, 3))
       THEN dive.maxDepth = Over1000(FieldOfFirst(268, 3))
       ELSE IsGreatest(dive.maxDepth, DepthsOrZero)

\* C24: avgDepth is field 2 of the first dive-summary message over 1000
\* whenever that field holds a value, 0 included, and null otherwise.
C24_AvgDepthFromSummary ==
  pc = "done" =>
    dive.avgDepth =
      (IF Present(FieldOfFirst(268, 2)) THEN Over1000(FieldOfFirst(268, 2)) ELSE Null)

\* C25: totalTime is field 7 of the first session message over 1000
\* whenever that field holds a value, 0 included, and the elapsed time of
\* the last sample only when the field holds none.
C25_TotalTimeFromSession ==
  pc = "done" =>
    dive.totalTime =
      (IF Present(FieldOfFirst(18, 7)) THEN Over1000(FieldOfFirst(18, 7))
       ELSE dive.samples[Len(dive.samples)].elapsed)

\* the instant ts + 631065600 seconds after 1970 for a timestamp ts other
\* than 0 (631065600 = 9629 * 65536 + 19456), null for 0 and for no value
InstantOf(ts) ==
  IF ts.k = "num" /\ ts.n # 0
  THEN [k |-> "date", n |-> ts.n + 631065600, d |-> 1, s |-> <<>>]
  ELSE IF ts.k = "big"
  THEN [k |-> "date", n |-> ts.n + 9629 + (ts.d + 19456) \div 65536,
        d |-> (ts.d + 19456) % 65536, s |-> <<65536>>]
  ELSE Null

\* C26: startDate is the conversion of field 2 of the first session message
\* whenever that field holds a value (0 converts to null), and the
\* conversion of the first record's timestamp only when it holds none.
C26_StartDateFromSession ==
  pc = "done" =>
    dive.startDate =
      (IF Present(FieldOfFirst(18, 2)) THEN InstantOf(FieldOfFirst(18, 2))
       ELSE InstantOf(RawOf(1, 253)))

\* the timestamp the start date is converted from, where there is no
\* session message or where the first one holds a start time other than 0
StartTimestamp ==
  IF Present(FieldOfFirst(18, 2)) THEN FieldOfFirst(18, 2) ELSE RawOf(1, 253)

\* C27: garminTimestampToDate gives the instant ts + 631065600 seconds
\* after 1970 for a timestamp other than 0, and null for 0 and for no
\* timestamp.
C27_GarminEpoch ==
  (/\ pc = "done"
   /\ \/ \A i \in DOMAIN messages : messages[i].mesgNum # 18
      \/ /\ Present(FieldOfFirst(18, 2))
         /\ FieldOfFirst(18, 2) # Num(0))
    => dive.startDate = InstantOf(StartTimestamp)

\* a first timestamp of 0 and no session message: start date null, not
\* the instant 631065600
C27_Witness ==
  /\ pc = "done"
  /\ \A i \in DOMAIN messages : messages[i].mesgNum # 18
  /\ RawOf(1, 253) = Num(0)
  /\ dive.startDate = Null

\* the temperatures of the samples that have one
Temperatures ==
  { dive.samples[k].temperature :
      k \in {x \in DOMAIN dive.samples : Present(dive.samples[x].temperature)} }

\* C28: minTemp and maxTemp are the least and the greatest temperature of
\* the samples that have one, minTemp <= maxTemp; both are null exactly when
\* no sample has a temperature.
C28_TemperatureRange ==
  pc = "done" =>
    IF Temperatures = {}
    THEN dive.minTemp = Null /\ dive.maxTemp = Null
    ELSE /\ IsLeast(dive.minTemp, Temperatures)
         /\ IsGreatest(dive.maxTemp, Temperatures)
         /\ ~Less(dive.maxTemp, dive.minTemp)

\* temperatures 22, -2 and 20: minimum -2, maximum 22
C28_Witness ==
  /\ pc = "done"
  /\ Len(dive.samples) = 3
  /\ dive.samples[1].temperature = Num(22)
  /\ dive.samples[2].temperature = Num(0 - 2)
  /\ dive.samples[3].temperature = Num(20)
  /\ dive.minTemp = Num(0 - 2)
  /\ dive.maxTemp = Num(22)

\* C29: the dive that getAllDives gives back after saveDive has a null
\* start date exactly when the dive had one, and the same instant
\* otherwise; its samples are those of the dive, in the same order, each
\* field null, undefined or a value as before; the other fields are kept.
C29_SaveAndLoad ==
  pc = "loaded" =>
    LET back == dives[Len(dives)]
    IN /\ back.startDate = Null <=> dive.startDate = Null
       /\ back.startDate = dive.startDate
       /\ back.samples = dive.samples
       /\ <<back.totalTime, back.maxDepth, back.avgDepth, back.minTemp, back.maxTemp>>
            = <<dive.totalTime, dive.maxDepth, dive.avgDepth, dive.minTemp, dive.maxTemp>>

\* a dive that starts 1000 s after the Garmin epoch, stored with the text
\* 1989-12-31T00:16:40.000Z, whose second sample has no temperature
C29_Witness ==
  /\ pc = "loaded"
  /\ dive.startDate = Date(631066600)
  /\ store[1].startDate =
       Str(<<49, 57, 56, 57, 45, 49, 50, 45, 51, 49, 84, 48, 48, 58, 49, 54, 58, 52, 48,
             46, 48, 48, 48, 90>>)
  /\ dives[1].startDate = Date(631066600)
  /\ Len(dives[1].samples) = 2
  /\ dives[1].samples[2].temperature = Null
  /\ dives[1].samples[1].temperature = Num(20)

\* C30: the definition table has at most 16 entries, under keys 0..15; a
\* definition or data record uses the key of bits 0-3 of its header, in
\* 0..15, and a compressed-timestamp record the key of bits 5-6, in 0..3.
C30_KeysInRange ==
  /\ DOMAIN definitions \subseteq 0..15
  /\ Cardinality(DOMAIN definitions) <= 16
  /\ \A i \in DOMAIN scanned :
       LET e == scanned[i]
           header == ByteAt(e.at)
       IN IF e.kind = "compressed"
          THEN e.key \in 0..3 /\ e.key = (header \div 32) % 4
          ELSE e.key \in 0..15 /\ e.key = header % 16

\* the table is full, and records whose headers have bit 4 or the time
\* offset bits set have been handled: 95 stored a definition under key 15,
\* 31 was decoded with it, 255 looked up key 3 and 159 key 0
C30_Witness ==
  /\ DOMAIN definitions = 0..15
  /\ Len(definitions[15].fields) = 2
  /\ \E i, j, k, l \in DOMAIN scanned :
       /\ ByteAt(scanned[i].at) = 95 /\ scanned[i].kind = "definition" /\ scanned[i].key = 15
       /\ ByteAt(scanned[j].at) = 31 /\ scanned[j].kind = "data"
       /\ scanned[j].key = 15 /\ scanned[j].decoded
       /\ ByteAt(scanned[k].at) = 255 /\ scanned[k].kind = "compressed" /\ scanned[k].key = 3
       /\ ByteAt(scanned[l].at) = 159 /\ scanned[l].kind = "compressed" /\ scanned[l].key = 0

\* C31: a decoded message holds one value per field number of its
\* definition: the value read for the last descriptor with that number, at
\* that descriptor's offset; its global message number is the
\* definition's, whatever the fields are.
C31_LastDescriptorWins ==
  \A i \in DOMAIN scanned :
    Decodable(scanned[i]) =>
      LET e == scanned[i]
          def == e.def[1]
          msg == messages[MsgIndex(i)]
      IN /\ msg.mesgNum = def.globalMesgNum
         /\ DOMAIN msg.fields = FieldNumbers(def)
         /\ \A j \in DOMAIN def.fields :
              LastOfNumber(def, j) =>
                msg.fields[def.fields[j].fieldDefNum] =
                  FieldValue(Bits(def.fields[j].baseType, 1, 32), FieldOffset(e, j),
                             def.fields[j].size, def.littleEndian)

\* field 92 is listed as a uint8 holding 5 and then as a uint16 holding
\* 4000, field 253 holds 7 and then 9: the message has 4000 and 9
C31_Witness ==
  /\ Len(messages) = 1
  /\ Len(scanned) = 2
  /\ Len(scanned[2].def[1].fields) = 5
  /\ scanned[2].def[1].fields[2].fieldDefNum = 92
  /\ scanned[2].def[1].fields[4].fieldDefNum = 92
  /\ ByteAt(FieldOffset(scanned[2], 2)) = 5
  /\ ByteAt(FieldOffset(scanned[2], 1)) = 7
  /\ messages[1].mesgNum = 20
  /\ DOMAIN messages[1].fields = {253, 92, 13}
  /\ messages[1].fields[92] = Num(4000)
  /\ messages[1].fields[253] = Num(9)

\* C32: every sample of the dive has an elapsed value that is an integer
\* and not negative.
C32_ElapsedNonNegativeInteger ==
  pc = "done" =>
    \A k \in DOMAIN dive.samples :
      /\ dive.samples[k].elapsed.k = "num"
      /\ dive.samples[k].elapsed.d = 1
      /\ dive.samples[k].elapsed.n >= 0

\* the messages without the session and dive-summary messages after the
\* first of each
RECURSIVE FirstOnly(_, _, _)
FirstOnly(msgs, seenSession, seenSummary) ==
  IF msgs = <<>> THEN <<>>
  ELSE IF Head(msgs).mesgNum = 18
  THEN (IF seenSession THEN <<>> ELSE <<Head(msgs)>>)
         \o FirstOnly(Tail(msgs), TRUE, seenSummary)
  ELSE IF Head(msgs).mesgNum = 268
  THEN (IF seenSummary THEN <<>> ELSE <<Head(msgs)>>)
         \o FirstOnly(Tail(msgs), seenSession, TRUE)
  ELSE <<Head(msgs)>> \o FirstOnly(Tail(msgs), seenSession, seenSummary)

\* a session and a dive-summary message with values of their own
OtherMessage(num) ==
  [mesgNum |-> num,
   fields |-> [f \in {2, 3, 7} |-> IF f = 2 THEN Num(77000) ELSE Num(88000)]]

\* the messages with every session and dive-summary message after the
\* first of each replaced by another one
RECURSIVE LaterChanged(_, _, _)
LaterChanged(msgs, seenSession, seenSummary) ==
  IF msgs = <<>> THEN <<>>
  ELSE IF Head(msgs).mesgNum = 18
  THEN <<IF seenSession THEN OtherMessage(18) ELSE Head(msgs)>>
         \o LaterChanged(Tail(msgs), TRUE, seenSummary)
  ELSE IF Head(msgs).mesgNum = 268
  THEN <<IF seenSummary THEN OtherMessage(268) ELSE Head(msgs)>>
         \o LaterChanged(Tail(msgs), seenSession, TRUE)
  ELSE <<Head(msgs)>> \o LaterChanged(Tail(msgs), seenSession, seenSummary)

HasSession == \E i \in DOMAIN messages : messages[i].mesgNum = 18
HasSummary == \E i \in DOMAIN messages : messages[i].mesgNum = 268

\* C33: the dive is the one extracted from the messages without the later
\* session and dive-summary messages, with those messages changed, and
\* with a further session or dive-summary message added after a first
\* one; without a session message the start date comes from the first
\* record and the total time is the last elapsed time, without a
\* dive-summary message the average depth is null and the maximum depth
\* is the greatest sample depth.
C33_FirstSessionAndSummaryOnly ==
  pc = "done" =>
    /\ dive = ExtractDive(FirstOnly(messages, FALSE, FALSE))
    /\ dive = ExtractDive(LaterChanged(messages, FALSE, FALSE))
    /\ HasSession => dive = ExtractDive(Append(messages, OtherMessage(18)))
    /\ HasSummary => dive = ExtractDive(Append(messages, OtherMessage(268)))
    /\ ~HasSession =>
         /\ dive.startDate = InstantOf(RawOf(1, 253))
         /\ dive.totalTime = dive.samples[Len(dive.samples)].elapsed
    /\ ~HasSummary =>
         /\ dive.avgDepth = Null
         /\ IsGreatest(dive.maxDepth, DepthsOrZero)

\* two session messages and two dive-summary messages that differ: the
\* dive has the total time and the depths of the first of each
C33_Witness ==
  /\ pc = "done"
  /\ Len(OfType(messages, 18)) = 2
  /\ Len(OfType(messages, 268)) = 2
  /\ OfType(messages, 18)[1].fields[7] = Num(3000)
  /\ OfType(messages, 18)[2].fields[7] = Num(7000)
  /\ OfType(messages, 268)[1].fields[3] = Num(6000)
  /\ OfType(messages, 268)[2].fields[3] = Num(9000)
  /\ dive.totalTime = Num(3)
  /\ dive.maxDepth = Num(6)
  /\ dive.avgDepth = Rat(4500, 1000)
  /\ dive.startDate = Date(631067600)

\* the record under the cursor is a definition record
AtDefinitionRecord ==
  /\ pc = "loop"
  /\ Lt(offset, endOfData)
  /\ ~Bit(recordHeader, 128)
  /\ Bit(recordHeader, 64)

\* C34: a step of the record loop at a definition record with key k leaves
\* the definitions of all other keys and the messages as they are; a step
\* at any other record leaves the whole table as it is and only appends to
\* the messages.
C34_DefinitionFrame ==
  [][pc = "loop" =>
       IF AtDefinitionRecord
       THEN /\ DOMAIN definitions' \subseteq DOMAIN definitions \cup {Bits(recordHeader, 1, 16)}
            /\ \A k \in DOMAIN definitions :
                 k # Bits(recordHeader, 1, 16) =>
                   k \in DOMAIN definitions' /\ definitions'[k] = definitions[k]
            /\ messages' = messages
       ELSE /\ definitions' = definitions
            /\ Len(messages') >= Len(messages)
            /\ SubSeq(messages', 1, Len(messages)) = messages]_vars

\* a record decoded with the first definition of key 0, a definition for
\* key 1, then a new definition for key 0: key 1 keeps its definition and
\* the message is still there
C34_Witness ==
  /\ Len(scanned) = 4
  /\ scanned[1].kind = "definition" /\ scanned[1].key = 0
  /\ Decodable(scanned[2])
  /\ scanned[3].kind = "definition" /\ scanned[3].key = 1
  /\ scanned[4].kind = "definition" /\ scanned[4].key = 0
  /\ scanned[4].def # scanned[1].def
  /\ DOMAIN definitions = {0, 1}
  /\ definitions[1] = scanned[3].def[1]
  /\ definitions[0] = scanned[4].def[1]
  /\ Len(messages) = 1

\* the tag of the buffer is ".FIT" and the header is complete
ValidTag == Len(bytes) >= 12 /\ TagIsFit

\* C35 as stated: parseFIT ends on every buffer with a valid tag, and every
\* iteration of the record loop that does not end it moves the cursor
\* forward by at least one byte.
C35_EveryIterationAdvances ==
  /\ ValidTag => <>(pc \notin {"start", "loop"})
  /\ [][(pc = "loop" /\ pc' = "loop") => offset' >= offset + 1]_vars

\* C35: parseFIT ends on every buffer with a valid tag; an iteration of the
\* record loop that does not end it moves the cursor forward by at least
\* one byte or leaves it NaN (a field whose size was read beyond the
\* buffer), and the loop ends by an exception, at a data record with no
\* definition, or when the cursor is NaN or not below the end of the data.
C35_Terminates ==
  /\ ValidTag => <>(pc \notin {"start", "loop"})
  /\ [][(pc = "loop" /\ pc' = "loop") =>
          (offset' = NaNOffset \/ offset' >= offset + 1)]_vars
  /\ [][(pc = "loop" /\ pc' = "parsed") =>
          \/ ~Lt(offset, endOfData)
          \/ /\ ~Bit(recordHeader, 128)
             /\ ~Bit(recordHeader, 64)
             /\ Bits(recordHeader, 1, 16) \notin DOMAIN definitions]_vars

\* a loop that has handled a definition without fields and three data
\* records of one byte each and has returned
C35_Witness ==
  /\ pc = "parsed"
  /\ Len(scanned) = 4
  /\ scanned[1].kind = "definition"
  /\ scanned[1].def[1].fields = <<>>
  /\ \A i \in 2..4 : Decodable(scanned[i]) /\ scanned[i].end = scanned[i].at + 1
  /\ offset = endOfData

\* C36: once the database has completed a delete, the handler has
\* finished without error, with the list view shown, and the list of dives
\* no longer holds the dive of the request.
C36_DeleteRemovesDive ==
  \A i \in DOMAIN pending :
    pending[i].state # "requested" =>
      /\ pending[i].state = "finished"
      /\ pending[i].view = "list"
      /\ err = "none"
      /\ \A k \in DOMAIN dives : dives[k].id # pending[i].id

\* C37: the second cursor is set only when the first cursor is set.
C37_SecondOnlyWithFirst == cursor2Idx # Null => cursor1Idx # Null

\* C38: once the worker is active the cache storage holds the cache
\* CACHE_NAME and no other, with the assets in it; a fetch is answered
\* from the cache exactly when some cache has a response for the request,
\* and from the network otherwise.
C38_OldCachesDeleted ==
  swState = "activated" =>
    /\ DOMAIN cacheStorage = {CACHE_NAME}
    /\ ASSETS \subseteq cacheStorage[CACHE_NAME]
    /\ response # <<>> =>
         (response[1].from = "cache" <=>
            \E name \in DOMAIN cacheStorage : response[1].request \in cacheStorage[name])
    /\ response # <<>> => response[1].from \in {"cache", "network"}

\* two other caches have been deleted, and a request that no cache holds
\* has gone to the network
C38_Witness ==
  /\ swState = "activated"
  /\ cacheKeys = OtherCaches
  /\ DOMAIN cacheStorage = {CACHE_NAME}
  /\ response = <<[request |-> "./data.fit", from |-> "network"]>>

====
